---- MODULE Spec2Model ----
(***************************************************************************)
(* A model of the chess rules engine: position representation, attack and  *)
(* check detection, pseudo-legal move generation, legality filtering, move *)
(* execution and game-end classification.                                  *)
(*                                                                         *)
(* A board is the 8x8 grid of models/board.py: grid[rank][file], held here *)
(* as a sequence of eight sequences (index + 1).  Lists are sequences and  *)
(* keep the order in which the code builds them.  Python's None is         *)
(* NoPiece / NoSquare / NoPromotion / NoMove / NoGame according to the     *)
(* field's type.  The variables state, selected_square and                 *)
(* pending_promotion_move are the fields of the game controller; a caller  *)
(* that drives the engine directly holds its position in state.            *)
(***************************************************************************)
EXTENDS Integers, Sequences, FiniteSets, TLC

VARIABLES state, selected_square, pending_promotion_move, arg, last_op, last_result

vars == <<state, selected_square, pending_promotion_move, arg, last_op, last_result>>

(***************************************************************************)
(* models/piece.py, models/square.py                                       *)
(***************************************************************************)
WHITE == "white"
BLACK == "black"

PAWN == "pawn"
KNIGHT == "knight"
BISHOP == "bishop"
ROOK == "rook"
QUEEN == "queen"
KING == "king"

NoPromotion == "none"

opposite(color) == IF color = WHITE THEN BLACK ELSE WHITE

Piece(piece_type, color) == [piece_type |-> piece_type, color |-> color]

NoPiece == [piece_type |-> "none", color |-> "none"]

Square(file, rank) == [file |-> file, rank |-> rank]

NoSquare == [file |-> -1, rank |-> -1]

OnBoard(file, rank) == 0 <= file /\ file <= 7 /\ 0 <= rank /\ rank <= 7

Abs(n) == IF n < 0 THEN -n ELSE n

Sign(n) == IF n = 0 THEN 0 ELSE IF n > 0 THEN 1 ELSE -1

Range(seq) == {seq[i] : i \in 1..Len(seq)}

\* The element of a one-element set.  Only({e : v \in {x}}) is e with v
\* bound to the value of x, x being evaluated once (a local variable).
Only(S) == CHOOSE x \in S : TRUE

\* The concatenation of seqs[lo], ..., seqs[hi], computed by halving so that
\* the evaluation stays shallow.
RECURSIVE FlattenRange(_, _, _)
FlattenRange(seqs, lo, hi) ==
    IF lo > hi THEN <<>>
    ELSE IF lo = hi THEN seqs[lo]
    ELSE LET mid == (lo + hi) \div 2
         IN  FlattenRange(seqs, lo, mid) \o FlattenRange(seqs, mid + 1, hi)

Flatten(seqs) == FlattenRange(seqs, 1, Len(seqs))

(***************************************************************************)
(* models/board.py                                                         *)
(***************************************************************************)
EmptyGrid == [r \in 1..8 |-> [f \in 1..8 |-> NoPiece]]

get_piece(board, square) == board[square.rank + 1][square.file + 1]

set_piece(board, square, piece) ==
    [board EXCEPT ![square.rank + 1][square.file + 1] = piece]

remove_piece(board, square) ==
    [board EXCEPT ![square.rank + 1][square.file + 1] = NoPiece]

\* The squares of the grid in the scan order rank 0..7, file 0..7.
AllSquares == [i \in 1..64 |-> Square((i - 1) % 8, (i - 1) \div 8)]

\* The squares holding a piece of the colour, in scan order (the key order
\* of the dictionary the code returns).
get_all_pieces(board, color) ==
    SelectSeq(AllSquares, LAMBDA sq : get_piece(board, sq).color = color)

piece_order == <<ROOK, KNIGHT, BISHOP, QUEEN, KING, BISHOP, KNIGHT, ROOK>>

setup_standard_position ==
    [r \in 1..8 |-> [f \in 1..8 |->
        CASE r = 1 -> Piece(piece_order[f], WHITE)
          [] r = 8 -> Piece(piece_order[f], BLACK)
          [] r = 2 -> Piece(PAWN, WHITE)
          [] r = 7 -> Piece(PAWN, BLACK)
          [] OTHER -> NoPiece]]

(***************************************************************************)
(* models/move.py                                                          *)
(***************************************************************************)
Move(from_square, to_square, piece, captured_piece, promotion_piece, is_castling, is_en_passant) ==
    [from_square |-> from_square, to_square |-> to_square, piece |-> piece,
     captured_piece |-> captured_piece, promotion_piece |-> promotion_piece,
     is_castling |-> is_castling, is_en_passant |-> is_en_passant]

\* Python's None where a Move is expected.
NoMove == Move(NoSquare, NoSquare, NoPiece, NoPiece, NoPromotion, FALSE, FALSE)

\* chr(ord('a') + file) and str(rank + 1)
FileLetter(file) == <<"a", "b", "c", "d", "e", "f", "g", "h">>[file + 1]

RankDigit(rank) == <<"1", "2", "3", "4", "5", "6", "7", "8">>[rank + 1]

to_algebraic(square) == FileLetter(square.file) \o RankDigit(square.rank)

piece_letters(piece_type) ==
    CASE piece_type = KNIGHT -> "N"
      [] piece_type = BISHOP -> "B"
      [] piece_type = ROOK -> "R"
      [] piece_type = QUEEN -> "Q"
      [] piece_type = KING -> "K"

promotion_letters(piece_type) ==
    CASE piece_type = KNIGHT -> "N"
      [] piece_type = BISHOP -> "B"
      [] piece_type = ROOK -> "R"
      [] piece_type = QUEEN -> "Q"

to_algebraic_notation(move, is_check_, is_checkmate_, disambiguate_file, disambiguate_rank) ==
    LET suffix == IF is_checkmate_ THEN "#"
                  ELSE IF is_check_ THEN "+" ELSE ""
        capture == move.captured_piece # NoPiece \/ move.is_en_passant
        letter ==
            IF move.piece.piece_type = PAWN
            THEN IF capture THEN FileLetter(move.from_square.file) ELSE ""
            ELSE piece_letters(move.piece.piece_type)
                 \o (IF disambiguate_file
                     THEN FileLetter(move.from_square.file) ELSE "")
                 \o (IF disambiguate_rank
                     THEN RankDigit(move.from_square.rank) ELSE "")
        promotion == IF move.promotion_piece # NoPromotion
                     THEN "=" \o promotion_letters(move.promotion_piece)
                     ELSE ""
    IN  IF move.is_castling
        THEN (IF move.to_square.file = 6 THEN "O-O" ELSE "O-O-O") \o suffix
        ELSE letter \o (IF capture THEN "x" ELSE "")
             \o to_algebraic(move.to_square) \o promotion \o suffix

(***************************************************************************)
(* models/castling_rights.py                                               *)
(***************************************************************************)
CastlingRights(wk, wq, bk, bq) ==
    [white_kingside |-> wk, white_queenside |-> wq,
     black_kingside |-> bk, black_queenside |-> bq]

\* A rook move assigns the flags from the origin test instead of clearing
\* them on a match.
revoke_for_piece_assigning(rights, piece_type, color, square) ==
    IF piece_type = KING
    THEN IF color = WHITE
         THEN [rights EXCEPT !.white_kingside = FALSE, !.white_queenside = FALSE]
         ELSE [rights EXCEPT !.black_kingside = FALSE, !.black_queenside = FALSE]
    ELSE IF piece_type = ROOK
    THEN IF color = WHITE
         THEN [rights EXCEPT
                 !.white_queenside = ~(square.file = 0 /\ square.rank = 0),
                 !.white_kingside = ~(square.file = 7 /\ square.rank = 0)]
         ELSE [rights EXCEPT
                 !.black_queenside = ~(square.file = 0 /\ square.rank = 7),
                 !.black_kingside = ~(square.file = 7 /\ square.rank = 7)]
    ELSE rights

\* The two corners of a colour are swapped.
revoke_for_piece_corners_swapped(rights, piece_type, color, square) ==
    IF piece_type = KING
    THEN IF color = WHITE
         THEN [rights EXCEPT !.white_kingside = FALSE, !.white_queenside = FALSE]
         ELSE [rights EXCEPT !.black_kingside = FALSE, !.black_queenside = FALSE]
    ELSE IF piece_type = ROOK
    THEN IF color = WHITE
         THEN IF square.file = 0 /\ square.rank = 0
              THEN [rights EXCEPT !.white_kingside = FALSE]
              ELSE IF square.file = 7 /\ square.rank = 0
              THEN [rights EXCEPT !.white_queenside = FALSE]
              ELSE rights
         ELSE IF square.file = 0 /\ square.rank = 7
              THEN [rights EXCEPT !.black_kingside = FALSE]
              ELSE IF square.file = 7 /\ square.rank = 7
              THEN [rights EXCEPT !.black_queenside = FALSE]
              ELSE rights
    ELSE rights

revoke_for_piece(rights, piece_type, color, square) ==
    IF piece_type = KING
    THEN IF color = WHITE
         THEN [rights EXCEPT !.white_kingside = FALSE, !.white_queenside = FALSE]
         ELSE [rights EXCEPT !.black_kingside = FALSE, !.black_queenside = FALSE]
    ELSE IF piece_type = ROOK
    THEN IF color = WHITE
         THEN IF square.file = 0 /\ square.rank = 0
              THEN [rights EXCEPT !.white_queenside = FALSE]
              ELSE IF square.file = 7 /\ square.rank = 0
              THEN [rights EXCEPT !.white_kingside = FALSE]
              ELSE rights
         ELSE IF square.file = 0 /\ square.rank = 7
              THEN [rights EXCEPT !.black_queenside = FALSE]
              ELSE IF square.file = 7 /\ square.rank = 7
              THEN [rights EXCEPT !.black_kingside = FALSE]
              ELSE rights
    ELSE rights

\* A rook captured on a corner costs the corner's colour both its rights.
revoke_for_rook_capture_whole_side(rights, square) ==
    IF (square.file = 0 \/ square.file = 7) /\ square.rank = 0
    THEN [rights EXCEPT !.white_kingside = FALSE, !.white_queenside = FALSE]
    ELSE IF (square.file = 0 \/ square.file = 7) /\ square.rank = 7
    THEN [rights EXCEPT !.black_kingside = FALSE, !.black_queenside = FALSE]
    ELSE rights

revoke_for_rook_capture(rights, square) ==
    IF square.file = 0 /\ square.rank = 0
    THEN [rights EXCEPT !.white_queenside = FALSE]
    ELSE IF square.file = 7 /\ square.rank = 0
    THEN [rights EXCEPT !.white_kingside = FALSE]
    ELSE IF square.file = 0 /\ square.rank = 7
    THEN [rights EXCEPT !.black_queenside = FALSE]
    ELSE IF square.file = 7 /\ square.rank = 7
    THEN [rights EXCEPT !.black_kingside = FALSE]
    ELSE rights

(***************************************************************************)
(* engine/check_detector.py.  The detector reads only the board of the     *)
(* state it is given, so the operators take the board.                     *)
(***************************************************************************)
\* The first square in scan order holding the colour's king, or NoSquare.
find_king_position(board, color) ==
    LET found == SelectSeq(AllSquares,
                           LAMBDA sq : get_piece(board, sq) = Piece(KING, color))
    IN  IF found = <<>> THEN NoSquare ELSE Head(found)

RECURSIVE PathClearFrom(_, _, _, _, _, _)
PathClearFrom(board, file, rank, file_step, rank_step, to_square) ==
    IF file = to_square.file /\ rank = to_square.rank
    THEN TRUE
    ELSE IF get_piece(board, Square(file, rank)) # NoPiece
    THEN FALSE
    ELSE PathClearFrom(board, file + file_step, rank + rank_step,
                       file_step, rank_step, to_square)

_is_path_clear(board, from_square, to_square) ==
    LET file_step == Sign(to_square.file - from_square.file)
        rank_step == Sign(to_square.rank - from_square.rank)
    IN  PathClearFrom(board, from_square.file + file_step,
                      from_square.rank + rank_step, file_step, rank_step,
                      to_square)

\* The square straight ahead counts as attacked too.
_can_pawn_attack_ahead(from_square, piece, target_square) ==
    LET direction == IF piece.color = WHITE THEN 1 ELSE -1
        rank_diff == target_square.rank - from_square.rank
        file_diff == Abs(target_square.file - from_square.file)
    IN  rank_diff = direction /\ file_diff <= 1

_can_pawn_attack(from_square, piece, target_square) ==
    LET direction == IF piece.color = WHITE THEN 1 ELSE -1
        rank_diff == target_square.rank - from_square.rank
        file_diff == Abs(target_square.file - from_square.file)
    IN  rank_diff = direction /\ file_diff = 1

_can_knight_attack(from_square, target_square) ==
    LET file_diff == Abs(target_square.file - from_square.file)
        rank_diff == Abs(target_square.rank - from_square.rank)
    IN  (file_diff = 2 /\ rank_diff = 1) \/ (file_diff = 1 /\ rank_diff = 2)

_can_bishop_attack(board, from_square, target_square) ==
    LET file_diff == target_square.file - from_square.file
        rank_diff == target_square.rank - from_square.rank
    IN  IF Abs(file_diff) # Abs(rank_diff) \/ file_diff = 0
        THEN FALSE
        ELSE _is_path_clear(board, from_square, target_square)

_can_rook_attack(board, from_square, target_square) ==
    LET file_diff == target_square.file - from_square.file
        rank_diff == target_square.rank - from_square.rank
    IN  IF ~((file_diff = 0 /\ rank_diff # 0) \/ (file_diff # 0 /\ rank_diff = 0))
        THEN FALSE
        ELSE _is_path_clear(board, from_square, target_square)

_can_queen_attack(board, from_square, target_square) ==
    \/ _can_bishop_attack(board, from_square, target_square)
    \/ _can_rook_attack(board, from_square, target_square)

_can_king_attack(from_square, target_square) ==
    LET file_diff == Abs(target_square.file - from_square.file)
        rank_diff == Abs(target_square.rank - from_square.rank)
    IN  file_diff <= 1 /\ rank_diff <= 1 /\ (file_diff # 0 \/ rank_diff # 0)

_can_piece_attack_square(board, from_square, piece, target_square) ==
    CASE piece.piece_type = PAWN -> _can_pawn_attack(from_square, piece, target_square)
      [] piece.piece_type = KNIGHT -> _can_knight_attack(from_square, target_square)
      [] piece.piece_type = BISHOP -> _can_bishop_attack(board, from_square, target_square)
      [] piece.piece_type = ROOK -> _can_rook_attack(board, from_square, target_square)
      [] piece.piece_type = QUEEN -> _can_queen_attack(board, from_square, target_square)
      [] piece.piece_type = KING -> _can_king_attack(from_square, target_square)
      [] OTHER -> FALSE

is_square_attacked(board, square, by_color) ==
    \E i \in 1..64 :
        /\ get_piece(board, AllSquares[i]).color = by_color
        /\ _can_piece_attack_square(board, AllSquares[i],
                                    get_piece(board, AllSquares[i]), square)

\* A king that is not found counts as a king in check.
is_check_when_king_missing(board, color) ==
    Only({ IF king_square = NoSquare
           THEN TRUE
           ELSE is_square_attacked(board, king_square, opposite(color)) :
           king_square \in {find_king_position(board, color)} })

is_check(board, color) ==
    Only({ IF king_square = NoSquare
           THEN FALSE
           ELSE is_square_attacked(board, king_square, opposite(color)) :
           king_square \in {find_king_position(board, color)} })

(***************************************************************************)
(* engine/move_generator.py.  st is a GameState record.                    *)
(***************************************************************************)
PromotionTypes == <<QUEEN, ROOK, BISHOP, KNIGHT>>

\* The forward part of _generate_pawn_moves (lines 82-112).
PawnForwardMoves(st, square, piece) ==
    LET direction == IF piece.color = WHITE THEN 1 ELSE -1
        start_rank == IF piece.color = WHITE THEN 1 ELSE 6
        forward_rank == square.rank + direction
        forward_square == Square(square.file, forward_rank)
        two_forward_square == Square(square.file, square.rank + 2 * direction)
    IN  IF ~(0 <= forward_rank /\ forward_rank <= 7)
        THEN <<>>
        ELSE IF get_piece(st.board, forward_square) # NoPiece
        THEN <<>>
        ELSE IF forward_square.rank = 7 \/ forward_square.rank = 0
        THEN [i \in 1..4 |-> Move(square, forward_square, piece, NoPiece,
                                  PromotionTypes[i], FALSE, FALSE)]
        ELSE <<Move(square, forward_square, piece, NoPiece, NoPromotion,
                    FALSE, FALSE)>>
             \o (IF square.rank = start_rank
                    /\ get_piece(st.board, two_forward_square) = NoPiece
                 THEN <<Move(square, two_forward_square, piece, NoPiece,
                             NoPromotion, FALSE, FALSE)>>
                 ELSE <<>>)

\* A capture onto the last rank is generated as one move without a promotion
\* type.
PawnCaptureMoves_without_promotion(st, square, piece, file_offset) ==
    LET direction == IF piece.color = WHITE THEN 1 ELSE -1
        capture_file == square.file + file_offset
        capture_rank == square.rank + direction
        capture_square == Square(capture_file, capture_rank)
        target_piece == get_piece(st.board, capture_square)
        captured_pawn_square == Square(capture_square.file, square.rank)
        captured_pawn == get_piece(st.board, captured_pawn_square)
    IN  IF ~OnBoard(capture_file, capture_rank)
        THEN <<>>
        ELSE IF target_piece # NoPiece /\ target_piece.color # piece.color
        THEN <<Move(square, capture_square, piece, target_piece,
                    NoPromotion, FALSE, FALSE)>>
        ELSE IF st.en_passant_target # NoSquare
                /\ capture_square = st.en_passant_target
        THEN <<Move(square, capture_square, piece, captured_pawn,
                    NoPromotion, FALSE, TRUE)>>
        ELSE <<>>

\* One iteration of the diagonal-capture loop of _generate_pawn_moves
\* (lines 115-153).
PawnCaptureMoves(st, square, piece, file_offset) ==
    LET direction == IF piece.color = WHITE THEN 1 ELSE -1
        capture_file == square.file + file_offset
        capture_rank == square.rank + direction
        capture_square == Square(capture_file, capture_rank)
        target_piece == get_piece(st.board, capture_square)
        captured_pawn_square == Square(capture_square.file, square.rank)
        captured_pawn == get_piece(st.board, captured_pawn_square)
    IN  IF ~OnBoard(capture_file, capture_rank)
        THEN <<>>
        ELSE IF target_piece # NoPiece /\ target_piece.color # piece.color
        THEN IF capture_square.rank = 7 \/ capture_square.rank = 0
             THEN [i \in 1..4 |-> Move(square, capture_square, piece,
                                       target_piece, PromotionTypes[i],
                                       FALSE, FALSE)]
             ELSE <<Move(square, capture_square, piece, target_piece,
                         NoPromotion, FALSE, FALSE)>>
        ELSE IF st.en_passant_target # NoSquare
                /\ capture_square = st.en_passant_target
        THEN <<Move(square, capture_square, piece, captured_pawn,
                    NoPromotion, FALSE, TRUE)>>
        ELSE <<>>

_generate_pawn_moves(st, square, piece) ==
    PawnForwardMoves(st, square, piece)
    \o PawnCaptureMoves(st, square, piece, -1)
    \o PawnCaptureMoves(st, square, piece, 1)

\* A step move (knight, king): to an empty square or onto an enemy piece.
OffsetMoves(st, square, piece, offsets) ==
    LET MoveAt(off) ==
            LET target_file == square.file + off[1]
                target_rank == square.rank + off[2]
                target_square == Square(target_file, target_rank)
                target_piece == get_piece(st.board, target_square)
            IN  IF ~OnBoard(target_file, target_rank)
                THEN <<>>
                ELSE IF target_piece = NoPiece \/ target_piece.color # piece.color
                THEN <<Move(square, target_square, piece, target_piece,
                            NoPromotion, FALSE, FALSE)>>
                ELSE <<>>
    IN  Flatten([i \in 1..Len(offsets) |-> MoveAt(offsets[i])])

knight_offsets ==
    <<<<2, 1>>, <<2, -1>>, <<-2, 1>>, <<-2, -1>>,
      <<1, 2>>, <<1, -2>>, <<-1, 2>>, <<-1, -2>>>>

_generate_knight_moves(st, square, piece) ==
    OffsetMoves(st, square, piece, knight_offsets)

RECURSIVE SlideFrom(_, _, _, _, _, _, _)
SlideFrom(st, square, piece, current_file, current_rank, file_dir, rank_dir) ==
    LET target_square == Square(current_file, current_rank)
        target_piece == get_piece(st.board, target_square)
    IN  IF ~OnBoard(current_file, current_rank)
        THEN <<>>
        ELSE IF target_piece = NoPiece
        THEN <<Move(square, target_square, piece, NoPiece, NoPromotion,
                    FALSE, FALSE)>>
             \o SlideFrom(st, square, piece, current_file + file_dir,
                          current_rank + rank_dir, file_dir, rank_dir)
        ELSE IF target_piece.color # piece.color
        THEN <<Move(square, target_square, piece, target_piece, NoPromotion,
                    FALSE, FALSE)>>
        ELSE <<>>

_generate_sliding_moves(st, square, piece, file_dir, rank_dir) ==
    SlideFrom(st, square, piece, square.file + file_dir,
              square.rank + rank_dir, file_dir, rank_dir)

SlidingMoves(st, square, piece, directions) ==
    Flatten([i \in 1..Len(directions) |->
        _generate_sliding_moves(st, square, piece, directions[i][1],
                                directions[i][2])])

bishop_directions == <<<<1, 1>>, <<1, -1>>, <<-1, 1>>, <<-1, -1>>>>

rook_directions == <<<<1, 0>>, <<-1, 0>>, <<0, 1>>, <<0, -1>>>>

queen_directions == rook_directions \o bishop_directions

_generate_bishop_moves(st, square, piece) ==
    SlidingMoves(st, square, piece, bishop_directions)

_generate_rook_moves(st, square, piece) ==
    SlidingMoves(st, square, piece, rook_directions)

_generate_queen_moves(st, square, piece) ==
    SlidingMoves(st, square, piece, queen_directions)

\* One of the four blocks of _generate_castling_moves: the right is held,
\* the king stands on its start square, the squares between king and rook
\* are empty and the rook of the colour stands on its corner.
CastlingMove(st, square, piece, right, rank, between_files, rook_file, to_file) ==
    IF /\ right
       /\ square = Square(4, rank)
       /\ \A f \in between_files : get_piece(st.board, Square(f, rank)) = NoPiece
       /\ get_piece(st.board, Square(rook_file, rank)) = Piece(ROOK, piece.color)
    THEN <<Move(square, Square(to_file, rank), piece, NoPiece, NoPromotion,
                TRUE, FALSE)>>
    ELSE <<>>

_generate_castling_moves(st, square, piece) ==
    IF piece.color = WHITE
    THEN CastlingMove(st, square, piece, st.castling_rights.white_kingside,
                      0, {5, 6}, 7, 6)
         \o CastlingMove(st, square, piece, st.castling_rights.white_queenside,
                         0, {1, 2, 3}, 0, 2)
    ELSE CastlingMove(st, square, piece, st.castling_rights.black_kingside,
                      7, {5, 6}, 7, 6)
         \o CastlingMove(st, square, piece, st.castling_rights.black_queenside,
                         7, {1, 2, 3}, 0, 2)

_generate_king_moves(st, square, piece) ==
    OffsetMoves(st, square, piece, queen_directions)
    \o _generate_castling_moves(st, square, piece)

generate_piece_moves(st, square) ==
    LET piece == get_piece(st.board, square)
    IN  CASE piece.piece_type = PAWN -> _generate_pawn_moves(st, square, piece)
          [] piece.piece_type = KNIGHT -> _generate_knight_moves(st, square, piece)
          [] piece.piece_type = BISHOP -> _generate_bishop_moves(st, square, piece)
          [] piece.piece_type = ROOK -> _generate_rook_moves(st, square, piece)
          [] piece.piece_type = QUEEN -> _generate_queen_moves(st, square, piece)
          [] piece.piece_type = KING -> _generate_king_moves(st, square, piece)
          [] OTHER -> <<>>

generate_pseudo_legal_moves(st, color) ==
    LET pieces == get_all_pieces(st.board, color)
    IN  Flatten([i \in 1..Len(pieces) |-> generate_piece_moves(st, pieces[i])])

(***************************************************************************)
(* models/game_state.py                                                    *)
(*                                                                         *)
(* Python passes objects by reference.  An operation that receives a       *)
(* GameState and could write to it is an operator returning a record       *)
(* [ret |-> its return value, state |-> the argument as the caller sees it *)
(* after the call].  A GameState holds four mutable containers (board,     *)
(* castling_rights, move_history, position_history); a copy says which of  *)
(* them it shares with the original, and WriteBack carries the writes made *)
(* through a shared container over to the original.                        *)
(***************************************************************************)
SINGLE_PLAYER == "single_player"
MULTIPLAYER == "multiplayer"

GameState(board, current_player, castling_rights, en_passant_target, halfmove_clock, fullmove_number, move_history, position_history, game_mode) ==
    [board |-> board, current_player |-> current_player,
     castling_rights |-> castling_rights,
     en_passant_target |-> en_passant_target,
     halfmove_clock |-> halfmove_clock, fullmove_number |-> fullmove_number,
     move_history |-> move_history, position_history |-> position_history,
     game_mode |-> game_mode]

\* Bitwise exclusive or of two naturals (Python's ^), four bits at a time.
Bit(n, k) == (n \div k) % 2

XorDigit ==
    [a \in 0..15 |-> [b \in 0..15 |->
        ((Bit(a, 1) + Bit(b, 1)) % 2)
        + 2 * ((Bit(a, 2) + Bit(b, 2)) % 2)
        + 4 * ((Bit(a, 4) + Bit(b, 4)) % 2)
        + 8 * ((Bit(a, 8) + Bit(b, 8)) % 2)]]

RECURSIVE Xor(_, _)
Xor(a, b) ==
    IF a = 0 THEN b
    ELSE IF b = 0 THEN a
    ELSE XorDigit[a % 16][b % 16] + 16 * Xor(a \div 16, b \div 16)

\* hash((piece.piece_type, piece.color)) and hash(self.current_player):
\* CPython derives both from salted string hashes of the enum member names,
\* fixed for the life of a process.  The numbers below are one such
\* assignment, scaled to twenty bits.
PieceTypeIndex(piece_type) ==
    CASE piece_type = PAWN -> 1
      [] piece_type = KNIGHT -> 2
      [] piece_type = BISHOP -> 3
      [] piece_type = ROOK -> 4
      [] piece_type = QUEEN -> 5
      [] piece_type = KING -> 6

PieceHashTable ==
    <<<<745321, 203977>>, <<918273, 564738>>, <<129485, 880131>>,
      <<657483, 39102>>, <<482910, 1015873>>, <<83745, 700919>>>>

PieceHash(piece) ==
    PieceHashTable[PieceTypeIndex(piece.piece_type)]
                  [IF piece.color = WHITE THEN 1 ELSE 2]

ColorHash(color) == IF color = WHITE THEN 51283 ELSE 37906

\* The loop over rank and file: the exclusive or of the contributions of the
\* occupied squares among AllSquares[lo..hi] (exclusive or is associative
\* and commutative, so the halving changes nothing).
RECURSIVE HashPieces(_, _, _)
HashPieces(board, lo, hi) ==
    IF lo = hi
    THEN LET piece == get_piece(board, AllSquares[lo])
             \* rank * 8 + file
             square_hash == AllSquares[lo].rank * 8 + AllSquares[lo].file
         IN  IF piece # NoPiece
             THEN square_hash * 31 + PieceHash(piece)
             ELSE 0
    ELSE LET mid == (lo + hi) \div 2
         IN  Xor(HashPieces(board, lo, mid), HashPieces(board, mid + 1, hi))

\* The en-passant target is left out of the hash.
compute_position_hash_without_en_passant(st) ==
    LET castling_hash ==
            (IF st.castling_rights.white_kingside THEN 1 ELSE 0)
            + (IF st.castling_rights.white_queenside THEN 2 ELSE 0)
            + (IF st.castling_rights.black_kingside THEN 4 ELSE 0)
            + (IF st.castling_rights.black_queenside THEN 8 ELSE 0)
        h1 == HashPieces(st.board, 1, 64)
        h2 == Xor(h1, ColorHash(st.current_player) * 17)
    IN  Xor(h2, castling_hash * 13)

\* The halfmove clock is mixed into the hash.
compute_position_hash_with_clock(st) ==
    LET castling_hash ==
            (IF st.castling_rights.white_kingside THEN 1 ELSE 0)
            + (IF st.castling_rights.white_queenside THEN 2 ELSE 0)
            + (IF st.castling_rights.black_kingside THEN 4 ELSE 0)
            + (IF st.castling_rights.black_queenside THEN 8 ELSE 0)
        h1 == HashPieces(st.board, 1, 64)
        h2 == Xor(h1, ColorHash(st.current_player) * 17)
        h3 == Xor(h2, castling_hash * 13)
        h4 == Xor(h3, st.halfmove_clock * 23)
    IN  IF st.en_passant_target # NoSquare
        THEN Xor(h4, (st.en_passant_target.rank * 8
                      + st.en_passant_target.file) * 19)
        ELSE h4

compute_position_hash(st) ==
    LET castling_hash ==
            (IF st.castling_rights.white_kingside THEN 1 ELSE 0)
            + (IF st.castling_rights.white_queenside THEN 2 ELSE 0)
            + (IF st.castling_rights.black_kingside THEN 4 ELSE 0)
            + (IF st.castling_rights.black_queenside THEN 8 ELSE 0)
        h1 == HashPieces(st.board, 1, 64)
        h2 == Xor(h1, ColorHash(st.current_player) * 17)
        h3 == Xor(h2, castling_hash * 13)
    IN  IF st.en_passant_target # NoSquare
        THEN Xor(h3, (st.en_passant_target.rank * 8
                      + st.en_passant_target.file) * 19)
        ELSE h3

\* The hash history starts empty.
new_game_without_first_hash(mode) ==
    GameState(setup_standard_position, WHITE,
              CastlingRights(TRUE, TRUE, TRUE, TRUE), NoSquare,
              0, 1, <<>>, <<>>, mode)

new_game(mode) ==
    LET st == GameState(setup_standard_position, WHITE,
                        CastlingRights(TRUE, TRUE, TRUE, TRUE), NoSquare,
                        0, 1, <<>>, <<>>, mode)
    IN  [st EXCEPT !.position_history = <<compute_position_hash(st)>>]

\* The copy hands out the board object of self instead of a copy of it.
copy_sharing_board(st) == [ret |-> st, shared |-> {"board"}]

\* GameState.copy: a new GameState whose board, castling rights and two
\* lists are new objects (shared: the containers it shares with self).
copy(st) == [ret |-> st, shared |-> {}]

\* The original as seen after writes were made through the copy.
WriteBack(original, written, shared) ==
    [original EXCEPT
        !.board = IF "board" \in shared THEN written.board ELSE @,
        !.castling_rights =
            IF "castling_rights" \in shared THEN written.castling_rights ELSE @,
        !.move_history =
            IF "move_history" \in shared THEN written.move_history ELSE @,
        !.position_history =
            IF "position_history" \in shared THEN written.position_history ELSE @]

(***************************************************************************)
(* engine/move_validator.py                                                *)
(***************************************************************************)
\* The rook relocation of a castling move (shared by the validator's
\* simulation and the engine's _execute_castling, which spell it alike).
RelocateRook(board, move) ==
    LET rank == move.from_square.rank
    IN  IF move.to_square.file = 6
        THEN set_piece(remove_piece(board, Square(7, rank)), Square(5, rank),
                       get_piece(board, Square(7, rank)))
        ELSE set_piece(remove_piece(board, Square(0, rank)), Square(3, rank),
                       get_piece(board, Square(0, rank)))

\* The pawn captured en passant is left on its square.
_apply_move_temporarily_keeping_passed_pawn(st, move) ==
    LET c == copy(st)
        temp_state == c.ret
        b1 == remove_piece(temp_state.board, move.from_square)
        b3 == IF move.is_castling THEN RelocateRook(b1, move) ELSE b1
        b4 == IF move.promotion_piece # NoPromotion
              THEN set_piece(b3, move.to_square,
                             Piece(move.promotion_piece, move.piece.color))
              ELSE set_piece(b3, move.to_square, move.piece)
        result == [temp_state EXCEPT !.board = b4]
    IN  [ret |-> result, state |-> WriteBack(st, result, c.shared)]

_apply_move_temporarily(st, move) ==
    LET c == copy(st)
        temp_state == c.ret
        b1 == remove_piece(temp_state.board, move.from_square)
        b2 == IF move.is_en_passant
              THEN remove_piece(b1, Square(move.to_square.file,
                                           move.from_square.rank))
              ELSE b1
        b3 == IF move.is_castling THEN RelocateRook(b2, move) ELSE b2
        b4 == IF move.promotion_piece # NoPromotion
              THEN set_piece(b3, move.to_square,
                             Piece(move.promotion_piece, move.piece.color))
              ELSE set_piece(b3, move.to_square, move.piece)
        result == [temp_state EXCEPT !.board = b4]
    IN  [ret |-> result, state |-> WriteBack(st, result, c.shared)]

\* The check is asked of the state passed in, not of the simulated one.
would_leave_in_check_stale(st, move) ==
    Only({ [ret |-> is_check(st.board, move.piece.color),
            state |-> applied.state] :
           applied \in {_apply_move_temporarily(st, move)} })

would_leave_in_check(st, move) ==
    Only({ [ret |-> is_check(applied.ret.board, move.piece.color),
            state |-> applied.state] :
           applied \in {_apply_move_temporarily(st, move)} })

\* "return not self.would_leave_in_check(state, move)"
NotLeaving(st, move) ==
    Only({ [ret |-> ~leaves.ret, state |-> leaves.state] :
           leaves \in {would_leave_in_check(st, move)} })

\* Requirement 4 (the square the king passes through) is left out.
validate_castling_without_path_test(st, move) ==
    IF is_check(st.board, move.piece.color)
    THEN [ret |-> FALSE, state |-> st]
    ELSE NotLeaving(st, move)

validate_castling(st, move) ==
    LET king_file == move.from_square.file
        target_file == move.to_square.file
        rank == move.from_square.rank
        intermediate_square ==
            IF target_file > king_file
            THEN Square(king_file + 1, rank)
            ELSE Square(king_file - 1, rank)
        opponent_color == opposite(move.piece.color)
    IN  IF is_check(st.board, move.piece.color)
        THEN [ret |-> FALSE, state |-> st]
        ELSE IF is_square_attacked(st.board, intermediate_square, opponent_color)
        THEN [ret |-> FALSE, state |-> st]
        ELSE NotLeaving(st, move)

validate_en_passant(st, move) ==
    IF st.en_passant_target = NoSquare
       \/ move.to_square # st.en_passant_target
    THEN [ret |-> FALSE, state |-> st]
    ELSE NotLeaving(st, move)

is_legal_move(st, move) ==
    IF move.is_castling
    THEN validate_castling(st, move)
    ELSE IF move.is_en_passant
    THEN validate_en_passant(st, move)
    ELSE NotLeaving(st, move)

\* The loop "for move in pseudo_legal_moves: if is_legal_move(state, move)",
\* each call receiving the state object as the previous call left it.
\* moves[lo..hi] are filtered left to right; the halving keeps the
\* evaluation shallow and does not change the order of the calls.
RECURSIVE FilterLegalRange(_, _, _, _)
FilterLegalRange(st, moves, lo, hi) ==
    IF lo > hi
    THEN [ret |-> <<>>, state |-> st]
    ELSE IF lo = hi
    THEN Only({ [ret |-> IF one.ret THEN <<moves[lo]>> ELSE <<>>,
                 state |-> one.state] :
                one \in {is_legal_move(st, moves[lo])} })
    ELSE LET mid == (lo + hi) \div 2
             left == FilterLegalRange(st, moves, lo, mid)
             right == FilterLegalRange(left.state, moves, mid + 1, hi)
         IN  [ret |-> left.ret \o right.ret, state |-> right.state]

FilterLegal(st, moves) == FilterLegalRange(st, moves, 1, Len(moves))

filter_legal_moves(st, pseudo_legal_moves) == FilterLegal(st, pseudo_legal_moves)

(***************************************************************************)
(* engine/chess_engine.py                                                  *)
(***************************************************************************)
initialize_game(mode) == new_game(mode)

\* The moved piece is placed whatever promotion the move carries.
_execute_normal_move_without_promotion(board, move) ==
    set_piece(board, move.to_square, move.piece)

_execute_normal_move(board, move) ==
    IF move.promotion_piece # NoPromotion
    THEN set_piece(board, move.to_square,
                   Piece(move.promotion_piece, move.piece.color))
    ELSE set_piece(board, move.to_square, move.piece)

\* Only the rook is relocated; the king is not put on its landing square.
_execute_castling_rook_only(board, move) == RelocateRook(board, move)

\* The rook is put on its new square without being taken off its home square.
_execute_castling_rook_left_at_home(board, move) ==
    LET rank == move.from_square.rank
        with_king == set_piece(board, move.to_square, move.piece)
    IN  IF move.to_square.file = 6
        THEN set_piece(with_king, Square(5, rank),
                       get_piece(with_king, Square(7, rank)))
        ELSE set_piece(with_king, Square(3, rank),
                       get_piece(with_king, Square(0, rank)))

_execute_castling(board, move) ==
    RelocateRook(set_piece(board, move.to_square, move.piece), move)

\* The square emptied takes its rank from the destination instead of the
\* origin, so the capturing pawn itself is removed.
_execute_en_passant_removing_destination(board, move) ==
    remove_piece(set_piece(board, move.to_square, move.piece),
                 Square(move.to_square.file, move.to_square.rank))

_execute_en_passant(board, move) ==
    remove_piece(set_piece(board, move.to_square, move.piece),
                 Square(move.to_square.file, move.from_square.rank))

\* The two-rank test is left out: every pawn move sets a target.
_calculate_en_passant_target_any_pawn_move(move) ==
    IF move.piece.piece_type # PAWN
    THEN NoSquare
    ELSE IF move.piece.color = WHITE
    THEN Square(move.from_square.file, move.from_square.rank + 1)
    ELSE Square(move.from_square.file, move.from_square.rank - 1)

\* The direction is taken for the wrong colour: the target lies behind the
\* origin square instead of between origin and destination.
_calculate_en_passant_target_behind_origin(move) ==
    IF move.piece.piece_type # PAWN
    THEN NoSquare
    ELSE IF Abs(move.to_square.rank - move.from_square.rank) # 2
    THEN NoSquare
    ELSE IF move.piece.color = WHITE
    THEN Square(move.from_square.file, move.from_square.rank - 1)
    ELSE Square(move.from_square.file, move.from_square.rank + 1)

_calculate_en_passant_target(move) ==
    IF move.piece.piece_type # PAWN
    THEN NoSquare
    ELSE IF Abs(move.to_square.rank - move.from_square.rank) # 2
    THEN NoSquare
    ELSE IF move.piece.color = WHITE
    THEN Square(move.from_square.file, move.from_square.rank + 1)
    ELSE Square(move.from_square.file, move.from_square.rank - 1)

\* The board writes of execute_move (lines 70-80).
ExecuteOnBoard(board, move) ==
    LET b1 == remove_piece(board, move.from_square)
    IN  IF move.is_castling
        THEN _execute_castling(b1, move)
        ELSE IF move.is_en_passant
        THEN _execute_en_passant(b1, move)
        ELSE _execute_normal_move(b1, move)

\* The halfmove clock is reset by pawn moves only, a capture counting on.
Moved_clock_counts_captures(new_state, move, mover) ==
    LET r1 == revoke_for_piece(new_state.castling_rights, move.piece.piece_type,
                               move.piece.color, move.from_square)
        r2 == IF move.captured_piece # NoPiece
                 /\ move.captured_piece.piece_type = ROOK
              THEN revoke_for_rook_capture(r1, move.to_square)
              ELSE r1
    IN  [new_state EXCEPT
            !.board = ExecuteOnBoard(@, move),
            !.castling_rights = r2,
            !.en_passant_target = _calculate_en_passant_target(move),
            !.halfmove_clock = IF move.piece.piece_type = PAWN THEN 0 ELSE @ + 1,
            !.fullmove_number = IF mover = BLACK THEN @ + 1 ELSE @,
            !.move_history = Append(@, move),
            !.current_player = opposite(mover)]

\* The fullmove number is incremented after White's move instead of Black's.
Moved_number_after_white(new_state, move, mover) ==
    LET r1 == revoke_for_piece(new_state.castling_rights, move.piece.piece_type,
                               move.piece.color, move.from_square)
        r2 == IF move.captured_piece # NoPiece
                 /\ move.captured_piece.piece_type = ROOK
              THEN revoke_for_rook_capture(r1, move.to_square)
              ELSE r1
    IN  [new_state EXCEPT
            !.board = ExecuteOnBoard(@, move),
            !.castling_rights = r2,
            !.en_passant_target = _calculate_en_passant_target(move),
            !.halfmove_clock =
                IF move.piece.piece_type = PAWN \/ move.captured_piece # NoPiece
                THEN 0
                ELSE @ + 1,
            !.fullmove_number = IF mover = WHITE THEN @ + 1 ELSE @,
            !.move_history = Append(@, move),
            !.current_player = opposite(mover)]

\* The side to move is left as it was.
Moved_player_not_switched(new_state, move, mover) ==
    LET r1 == revoke_for_piece(new_state.castling_rights, move.piece.piece_type,
                               move.piece.color, move.from_square)
        r2 == IF move.captured_piece # NoPiece
                 /\ move.captured_piece.piece_type = ROOK
              THEN revoke_for_rook_capture(r1, move.to_square)
              ELSE r1
    IN  [new_state EXCEPT
            !.board = ExecuteOnBoard(@, move),
            !.castling_rights = r2,
            !.en_passant_target = _calculate_en_passant_target(move),
            !.halfmove_clock =
                IF move.piece.piece_type = PAWN \/ move.captured_piece # NoPiece
                THEN 0
                ELSE @ + 1,
            !.fullmove_number = IF mover = BLACK THEN @ + 1 ELSE @,
            !.move_history = Append(@, move),
            !.current_player = mover]

\* The writes of execute_move to new_state before the hash is appended
\* (lines 67-110); mover is state.current_player.
Moved(new_state, move, mover) ==
    LET r1 == revoke_for_piece(new_state.castling_rights, move.piece.piece_type,
                               move.piece.color, move.from_square)
        r2 == IF move.captured_piece # NoPiece
                 /\ move.captured_piece.piece_type = ROOK
              THEN revoke_for_rook_capture(r1, move.to_square)
              ELSE r1
    IN  [new_state EXCEPT
            !.board = ExecuteOnBoard(@, move),
            !.castling_rights = r2,
            !.en_passant_target = _calculate_en_passant_target(move),
            !.halfmove_clock =
                IF move.piece.piece_type = PAWN \/ move.captured_piece # NoPiece
                THEN 0
                ELSE @ + 1,
            !.fullmove_number = IF mover = BLACK THEN @ + 1 ELSE @,
            !.move_history = Append(@, move),
            !.current_player = opposite(mover)]

\* The hash appended is that of the position given, not of the new one.
execute_move_hashing_given_state(st, move) ==
    Only({ [ret |-> result, state |-> WriteBack(st, result, copy(st).shared)] :
           result \in
             { [moved EXCEPT
                  !.position_history = Append(@, compute_position_hash(st))] :
               moved \in {Moved(copy(st).ret, move, st.current_player)} } })

execute_move(st, move) ==
    Only({ [ret |-> result, state |-> WriteBack(st, result, copy(st).shared)] :
           result \in
             { [moved EXCEPT
                  !.position_history = Append(@, compute_position_hash(moved))] :
               moved \in {Moved(copy(st).ret, move, st.current_player)} } })

get_legal_moves(st, color) ==
    Only({ FilterLegal(st, pseudo_legal_moves) :
           pseudo_legal_moves \in {generate_pseudo_legal_moves(st, color)} })

\* "legal_moves = self.get_legal_moves(state, state.current_player);
\* return len(legal_moves) == 0"
NoLegalMoves(st) ==
    Only({ [ret |-> Len(legal_moves.ret) = 0, state |-> legal_moves.state] :
           legal_moves \in {get_legal_moves(st, st.current_player)} })

is_checkmate(st) ==
    IF ~is_check(st.board, st.current_player)
    THEN [ret |-> FALSE, state |-> st]
    ELSE NoLegalMoves(st)

\* Stalemate taken to be "no legal move", without the check test.
is_stalemate_without_check_test(st) == NoLegalMoves(st)

is_stalemate(st) ==
    IF is_check(st.board, st.current_player)
    THEN [ret |-> FALSE, state |-> st]
    ELSE NoLegalMoves(st)

\* list.count
Count(seq, x) == Cardinality({i \in 1..Len(seq) : seq[i] = x})

\* Two occurrences are taken to be enough.
is_threefold_repetition_at_two(st) ==
    IF Len(st.position_history) < 3
    THEN FALSE
    ELSE Count(st.position_history, compute_position_hash(st)) >= 2

is_threefold_repetition(st) ==
    IF Len(st.position_history) < 3
    THEN FALSE
    ELSE Count(st.position_history, compute_position_hash(st)) >= 3

is_fifty_move_rule(st) == st.halfmove_clock >= 100

\* counts[piece_type] and counts['total'] over the pieces of one colour.
_count_pieces_by_type(board, pieces) ==
    [t \in {PAWN, KNIGHT, BISHOP, ROOK, QUEEN, KING, "total"} |->
        IF t = "total"
        THEN Len(pieces)
        ELSE Len(SelectSeq(pieces,
                           LAMBDA sq : get_piece(board, sq).piece_type = t))]

_find_piece_square(board, pieces, piece_type) ==
    LET found == SelectSeq(pieces,
                     LAMBDA sq : get_piece(board, sq).piece_type = piece_type)
    IN  IF found = <<>> THEN NoSquare ELSE Head(found)

\* Two lone bishops are taken to be insufficient whatever their squares.
is_insufficient_material_any_bishops(st) ==
    LET white_pieces == get_all_pieces(st.board, WHITE)
        black_pieces == get_all_pieces(st.board, BLACK)
        white_counts == _count_pieces_by_type(st.board, white_pieces)
        black_counts == _count_pieces_by_type(st.board, black_pieces)
    IN  IF white_counts["total"] = 1 /\ black_counts["total"] = 1
        THEN TRUE
        ELSE IF white_counts["total"] = 2 /\ white_counts[BISHOP] = 1
                /\ black_counts["total"] = 1
        THEN TRUE
        ELSE IF black_counts["total"] = 2 /\ black_counts[BISHOP] = 1
                /\ white_counts["total"] = 1
        THEN TRUE
        ELSE IF white_counts["total"] = 2 /\ white_counts[KNIGHT] = 1
                /\ black_counts["total"] = 1
        THEN TRUE
        ELSE IF black_counts["total"] = 2 /\ black_counts[KNIGHT] = 1
                /\ white_counts["total"] = 1
        THEN TRUE
        ELSE white_counts["total"] = 2 /\ white_counts[BISHOP] = 1
             /\ black_counts["total"] = 2 /\ black_counts[BISHOP] = 1

is_insufficient_material(st) ==
    LET white_pieces == get_all_pieces(st.board, WHITE)
        black_pieces == get_all_pieces(st.board, BLACK)
        white_counts == _count_pieces_by_type(st.board, white_pieces)
        black_counts == _count_pieces_by_type(st.board, black_pieces)
        white_bishop_square == _find_piece_square(st.board, white_pieces, BISHOP)
        black_bishop_square == _find_piece_square(st.board, black_pieces, BISHOP)
    IN  IF white_counts["total"] = 1 /\ black_counts["total"] = 1
        THEN TRUE
        ELSE IF white_counts["total"] = 2 /\ white_counts[BISHOP] = 1
                /\ black_counts["total"] = 1
        THEN TRUE
        ELSE IF black_counts["total"] = 2 /\ black_counts[BISHOP] = 1
                /\ white_counts["total"] = 1
        THEN TRUE
        ELSE IF white_counts["total"] = 2 /\ white_counts[KNIGHT] = 1
                /\ black_counts["total"] = 1
        THEN TRUE
        ELSE IF black_counts["total"] = 2 /\ black_counts[KNIGHT] = 1
                /\ white_counts["total"] = 1
        THEN TRUE
        ELSE IF white_counts["total"] = 2 /\ white_counts[BISHOP] = 1
                /\ black_counts["total"] = 2 /\ black_counts[BISHOP] = 1
        THEN (white_bishop_square.file + white_bishop_square.rank) % 2
             = (black_bishop_square.file + black_bishop_square.rank) % 2
        ELSE FALSE

is_draw(st) ==
    Only({ IF stalemate.ret
           THEN [ret |-> TRUE, state |-> stalemate.state]
           ELSE [ret |-> \/ is_threefold_repetition(stalemate.state)
                         \/ is_fifty_move_rule(stalemate.state)
                         \/ is_insufficient_material(stalemate.state),
                 state |-> stalemate.state] :
           stalemate \in {is_stalemate(st)} })

\* The part of _get_disambiguation that follows the call of get_legal_moves.
Disambiguation(move, all_legal_moves) ==
    LET same_destination_moves ==
            { other_move \in Range(all_legal_moves) :
                /\ other_move.piece.piece_type = move.piece.piece_type
                /\ other_move.to_square = move.to_square
                /\ other_move.from_square # move.from_square }
        file_unique ==
            \A other_move \in same_destination_moves :
                other_move.from_square.file # move.from_square.file
        rank_unique ==
            \A other_move \in same_destination_moves :
                other_move.from_square.rank # move.from_square.rank
    IN  IF same_destination_moves = {} THEN <<FALSE, FALSE>>
        ELSE IF file_unique THEN <<TRUE, FALSE>>
        ELSE IF rank_unique THEN <<FALSE, TRUE>>
        ELSE <<TRUE, TRUE>>

_get_disambiguation_rank_first(st, move) ==
    IF move.piece.piece_type \in {PAWN, KING} \/ move.is_castling
    THEN [ret |-> <<FALSE, FALSE>>, state |-> st]
    ELSE Only({ [ret |-> Only({ IF flags = <<TRUE, FALSE>>
                                   /\ \A other \in Range(all_legal_moves.ret) :
                                         (/\ other.piece.piece_type = move.piece.piece_type
                                          /\ other.to_square = move.to_square
                                          /\ other.from_square # move.from_square)
                                            => other.from_square.rank # move.from_square.rank
                                THEN <<FALSE, TRUE>>
                                ELSE flags :
                                flags \in {Disambiguation(move, all_legal_moves.ret)} }),
                 state |-> all_legal_moves.state] :
                all_legal_moves \in {get_legal_moves(st, st.current_player)} })

_get_disambiguation(st, move) ==
    IF move.piece.piece_type \in {PAWN, KING}
    THEN [ret |-> <<FALSE, FALSE>>, state |-> st]
    ELSE IF move.is_castling
    THEN [ret |-> <<FALSE, FALSE>>, state |-> st]
    ELSE Only({ [ret |-> Disambiguation(move, all_legal_moves.ret),
                 state |-> all_legal_moves.state] :
                all_legal_moves \in {get_legal_moves(st, st.current_player)} })

\* The part of get_algebraic_notation that follows the call of execute_move
\* (executed.ret is new_state, executed.state the state passed in).
NotationAfter(executed, move) ==
    Only({ [ret |-> to_algebraic_notation(move, check,
                        check /\ is_checkmate(executed.ret).ret,
                        disambiguation.ret[1], disambiguation.ret[2]),
            state |-> disambiguation.state] :
           check \in {is_check(executed.ret.board,
                                executed.ret.current_player)},
           disambiguation \in {_get_disambiguation(executed.state, move)} })

get_algebraic_notation(st, move) ==
    Only({ NotationAfter(executed, move) :
           executed \in {execute_move(st, move)} })

(***************************************************************************)
(* The caller.  A game starts from new_game; the caller feeds the engine   *)
(* moves taken from get_legal_moves for the side to move.  The games       *)
(* explored are the scripted Games, and the Openings followed by up to     *)
(* FreePlies plies of any legal move.  A ply is written <<from file, from  *)
(* rank, to file, to rank>>.                                               *)
(***************************************************************************)
FreePlies == 1

Openings ==
  <<
    \* e2e4 e7e5 g1f3 b8c6 f1c4 f8c5 d2d4 c5b4
    <<<<4, 1, 4, 3>>, <<4, 6, 4, 4>>, <<6, 0, 5, 2>>, <<1, 7, 2, 5>>,
       <<5, 0, 2, 3>>, <<5, 7, 2, 4>>, <<3, 1, 3, 3>>, <<2, 4, 1, 3>>>>,
    \* a2a4 b7b5 a4b5 a7a6 a1a6 c8a6
    <<<<0, 1, 0, 3>>, <<1, 6, 1, 4>>, <<0, 3, 1, 4>>, <<0, 6, 0, 5>>,
       <<0, 0, 0, 5>>, <<2, 7, 0, 5>>>>
  >>

Games ==
  <<
    \* g1f3 g8f6 f3g1 f6g8 g1f3 g8f6 f3g1 f6g8
    <<<<6, 0, 5, 2>>, <<6, 7, 5, 5>>, <<5, 2, 6, 0>>, <<5, 5, 6, 7>>,
       <<6, 0, 5, 2>>, <<6, 7, 5, 5>>, <<5, 2, 6, 0>>, <<5, 5, 6, 7>>>>,
    \* f2f3 e7e5 g2g4 d8h4
    <<<<5, 1, 5, 2>>, <<4, 6, 4, 4>>, <<6, 1, 6, 3>>, <<3, 7, 7, 3>>>>,
    \* e2e3 a7a5 d1h5 a8a6 h5a5 h7h5 h2h4 a6h6 a5c7 f7f6 c7d7 e8f7 d7b7 d8d3 b7b8 d3h7 b8c8 f7g6 c8e6
    <<<<4, 1, 4, 2>>, <<0, 6, 0, 4>>, <<3, 0, 7, 4>>, <<0, 7, 0, 5>>,
       <<7, 4, 0, 4>>, <<7, 6, 7, 4>>, <<7, 1, 7, 3>>, <<0, 5, 7, 5>>,
       <<0, 4, 2, 6>>, <<5, 6, 5, 5>>, <<2, 6, 3, 6>>, <<4, 7, 5, 6>>,
       <<3, 6, 1, 6>>, <<3, 7, 3, 2>>, <<1, 6, 1, 7>>, <<3, 2, 7, 6>>,
       <<1, 7, 2, 7>>, <<5, 6, 6, 5>>, <<2, 7, 4, 5>>>>,
    \* e2e4 a7a6 e4e5 d7d5 h2h3 f7f5
    <<<<4, 1, 4, 3>>, <<0, 6, 0, 5>>, <<4, 3, 4, 4>>, <<3, 6, 3, 4>>,
       <<7, 1, 7, 2>>, <<5, 6, 5, 4>>>>,
    \* d2d4 b7b6 b1c3 c8a6 c1f4 e7e6 d1d2 g8f6 g1f3 f8e7 g2g3 e8g8 f1g2 h7h6 e2e4 c7c6
    <<<<3, 1, 3, 3>>, <<1, 6, 1, 5>>, <<1, 0, 2, 2>>, <<2, 7, 0, 5>>,
       <<2, 0, 5, 3>>, <<4, 6, 4, 5>>, <<3, 0, 3, 1>>, <<6, 7, 5, 5>>,
       <<6, 0, 5, 2>>, <<5, 7, 4, 6>>, <<6, 1, 6, 2>>, <<4, 7, 6, 7>>,
       <<5, 0, 6, 1>>, <<7, 6, 7, 5>>, <<4, 1, 4, 3>>, <<2, 6, 2, 5>>>>,
    \* f2f4 e7e5 g1f3 f8c5 e2e4 g8f6 f1c4 d7d6
    <<<<5, 1, 5, 3>>, <<4, 6, 4, 4>>, <<6, 0, 5, 2>>, <<5, 7, 2, 4>>,
       <<4, 1, 4, 3>>, <<6, 7, 5, 5>>, <<5, 0, 2, 3>>, <<3, 6, 3, 5>>>>,
    \* g1f3 h7h6 g2g3 h6h5 f1g2 g7g6 e1g1 b7b5 a2a4 g6g5 a4b5 c7c5 b5c6 c8b7 c6b7 g5g4 b7a8
    <<<<6, 0, 5, 2>>, <<7, 6, 7, 5>>, <<6, 1, 6, 2>>, <<7, 5, 7, 4>>,
       <<5, 0, 6, 1>>, <<6, 6, 6, 5>>, <<4, 0, 6, 0>>, <<1, 6, 1, 4>>,
       <<0, 1, 0, 3>>, <<6, 5, 6, 4>>, <<0, 3, 1, 4>>, <<2, 6, 2, 4>>,
       <<1, 4, 2, 5>>, <<2, 7, 1, 6>>, <<2, 5, 1, 6>>, <<6, 4, 6, 3>>,
       <<1, 6, 0, 7>>>>,
    \* h2h4 a7a5 h1h3 a8a6 h3h1 a6a8
    <<<<7, 1, 7, 3>>, <<0, 6, 0, 4>>, <<7, 0, 7, 2>>, <<0, 7, 0, 5>>,
       <<7, 2, 7, 0>>, <<0, 5, 0, 7>>>>,
    \* e2e4 e7e5 e1e2 e8e7 e2e1 e7e8
    <<<<4, 1, 4, 3>>, <<4, 6, 4, 4>>, <<4, 0, 4, 1>>, <<4, 7, 4, 6>>,
       <<4, 1, 4, 0>>, <<4, 6, 4, 7>>>>,
    \* g2g3 b7b6 f1g2 c8a6 g2a8 b8c6 e2e3 d8a8
    <<<<6, 1, 6, 2>>, <<1, 6, 1, 5>>, <<5, 0, 6, 1>>, <<2, 7, 0, 5>>,
       <<6, 1, 0, 7>>, <<1, 7, 2, 5>>, <<4, 1, 4, 2>>, <<3, 7, 0, 7>>>>,
    \* d2d4 d7d5 b1c3 b8c6 c1f4 c8f5 d1d2 d8d7 e2e3 e7e6 g1f3 g8f6 f1e2 f8e7 e1c1 e8c8
    <<<<3, 1, 3, 3>>, <<3, 6, 3, 4>>, <<1, 0, 2, 2>>, <<1, 7, 2, 5>>,
       <<2, 0, 5, 3>>, <<2, 7, 5, 4>>, <<3, 0, 3, 1>>, <<3, 7, 3, 6>>,
       <<4, 1, 4, 2>>, <<4, 6, 4, 5>>, <<6, 0, 5, 2>>, <<6, 7, 5, 5>>,
       <<5, 0, 4, 1>>, <<5, 7, 4, 6>>, <<4, 0, 2, 0>>, <<4, 7, 2, 7>>>>,
    \* a2a3 e7e5 a3a4 e5e4 d2d4 e4d3
    <<<<0, 1, 0, 2>>, <<4, 6, 4, 4>>, <<0, 2, 0, 3>>, <<4, 4, 4, 3>>,
       <<3, 1, 3, 3>>, <<4, 3, 3, 2>>>>,
    \* d2d4 d7d5 b1c3 b8c6 c1f4 c8f5 d1d2 d8d7 e2e3 e7e6 g1f3 g8f6 f1e2 f8e7 e1g1 e8g8
    <<<<3, 1, 3, 3>>, <<3, 6, 3, 4>>, <<1, 0, 2, 2>>, <<1, 7, 2, 5>>,
       <<2, 0, 5, 3>>, <<2, 7, 5, 4>>, <<3, 0, 3, 1>>, <<3, 7, 3, 6>>,
       <<4, 1, 4, 2>>, <<4, 6, 4, 5>>, <<6, 0, 5, 2>>, <<6, 7, 5, 5>>,
       <<5, 0, 4, 1>>, <<5, 7, 4, 6>>, <<4, 0, 6, 0>>, <<4, 7, 6, 7>>>>,
    \* e2e4 a7a6 e4e5 d7d5 e5d6
    <<<<4, 1, 4, 3>>, <<0, 6, 0, 5>>, <<4, 3, 4, 4>>, <<3, 6, 3, 4>>,
       <<4, 4, 3, 5>>>>,
    \* a2a4 b7b5 a4b5 a7a6 e2e3 a6b5 a1a8
    <<<<0, 1, 0, 3>>, <<1, 6, 1, 4>>, <<0, 3, 1, 4>>, <<0, 6, 0, 5>>,
       <<4, 1, 4, 2>>, <<0, 5, 1, 4>>, <<0, 0, 0, 7>>>>,
    \* a2a4 b7b5 a4b5 a7a6 b5a6 c8b7 a6b7 b8c6 b7b8
    <<<<0, 1, 0, 3>>, <<1, 6, 1, 4>>, <<0, 3, 1, 4>>, <<0, 6, 0, 5>>,
       <<1, 4, 0, 5>>, <<2, 7, 1, 6>>, <<0, 5, 1, 6>>, <<1, 7, 2, 5>>,
       <<1, 6, 1, 7>>>>,
    \* h2h3 g7g5 h3h4 g5h4 g2g3 h4g3 g1f3 g3g2 f3d4 g2g1
    <<<<7, 1, 7, 2>>, <<6, 6, 6, 4>>, <<7, 2, 7, 3>>, <<6, 4, 7, 3>>,
       <<6, 1, 6, 2>>, <<7, 3, 6, 2>>, <<6, 0, 5, 2>>, <<6, 2, 6, 1>>,
       <<5, 2, 3, 3>>, <<6, 1, 6, 0>>>>
  >>

Key(move) ==
    <<move.from_square.file, move.from_square.rank,
      move.to_square.file, move.to_square.rank>>

Played(st) == [i \in 1..Len(st.move_history) |-> Key(st.move_history[i])]

IsPrefix(s, t) == Len(s) <= Len(t) /\ \A i \in 1..Len(s) : s[i] = t[i]

\* The plies played follow a game, or an opening and then up to FreePlies
\* further plies.
Allowed(plies) ==
    \/ \E g \in 1..Len(Games) : IsPrefix(plies, Games[g])
    \/ \E o \in 1..Len(Openings) :
        \/ IsPrefix(plies, Openings[o])
        \/ /\ IsPrefix(Openings[o], plies)
           /\ Len(plies) - Len(Openings[o]) <= FreePlies

Init ==
    /\ state = initialize_game(MULTIPLAYER)
    /\ selected_square = NoSquare
    /\ pending_promotion_move = NoMove
    /\ arg = state
    /\ last_op = "initialize_game"
    /\ last_result = FALSE

\* Some ply may still follow the plies played.
MayExtend(plies) ==
    \/ \E g \in 1..Len(Games) :
        Len(plies) < Len(Games[g]) /\ IsPrefix(plies, Games[g])
    \/ \E o \in 1..Len(Openings) :
        \/ Len(plies) < Len(Openings[o]) /\ IsPrefix(plies, Openings[o])
        \/ /\ IsPrefix(Openings[o], plies)
           /\ Len(plies) - Len(Openings[o]) < FreePlies

\* The caller executes a legal move of the side to move and keeps the
\* returned state; arg is the state object it passed, after the call.
ExecuteMove ==
    /\ MayExtend(Played(state))
    /\ \E move \in
          { m \in Range(get_legal_moves(state, state.current_player).ret) :
                      Allowed(Append(Played(state), Key(m))) } :
          \E executed \in {execute_move(state, move)} :
              /\ state' = executed.ret
              /\ arg' = executed.state
              /\ last_op' = "execute_move"
              /\ last_result' = FALSE
              /\ UNCHANGED <<selected_square, pending_promotion_move>>

Next == ExecuteMove

Spec == Init /\ [][Next]_vars

(***************************************************************************)
(* The caller that also asks.  The games are the scripted ones (Games and   *)
(* Openings, no free plies).  At any time the caller may put any of the     *)
(* engine's questions to the position it holds.  A question leaves state    *)
(* alone; arg is the state object passed, as it is after the call.          *)
(***************************************************************************)
Scripted(plies) ==
    \/ \E g \in 1..Len(Games) : IsPrefix(plies, Games[g])
    \/ \E o \in 1..Len(Openings) : IsPrefix(plies, Openings[o])

\* The legal moves of the side to move that continue a scripted game.
ScriptedMoves(st) ==
    { m \in Range(get_legal_moves(st, st.current_player).ret) :
        Scripted(Append(Played(st), Key(m))) }

Asked(op, answer) ==
    /\ state' = state
    /\ UNCHANGED <<selected_square, pending_promotion_move>>
    /\ arg' = answer.state
    /\ last_op' = op
    /\ last_result' = answer.ret

ExecuteScriptedMove ==
    \E move \in ScriptedMoves(state) :
          \E executed \in {execute_move(state, move)} :
              /\ state' = executed.ret
              /\ arg' = executed.state
              /\ last_op' = "execute_move"
              /\ last_result' = FALSE
              /\ UNCHANGED <<selected_square, pending_promotion_move>>

IsLegalMove ==
    \E move \in Range(generate_pseudo_legal_moves(state, state.current_player)) :
          \E answer \in {is_legal_move(state, move)} :
              Asked("is_legal_move", answer)

GetLegalMoves ==
    \E color \in {WHITE, BLACK} :
          \E answer \in {get_legal_moves(state, color)} :
              Asked("get_legal_moves", answer)

IsCheckmate ==
    \E answer \in {is_checkmate(state)} : Asked("is_checkmate", answer)

IsStalemate ==
    \E answer \in {is_stalemate(state)} : Asked("is_stalemate", answer)

IsThreefoldRepetition ==
    \E answer \in {is_threefold_repetition(state)} :
          Asked("is_threefold_repetition", [ret |-> answer, state |-> state])

IsFiftyMoveRule ==
    \E answer \in {is_fifty_move_rule(state)} :
          Asked("is_fifty_move_rule", [ret |-> answer, state |-> state])

IsInsufficientMaterial ==
    \E answer \in {is_insufficient_material(state)} :
          Asked("is_insufficient_material", [ret |-> answer, state |-> state])

IsDraw ==
    \E answer \in {is_draw(state)} : Asked("is_draw", answer)

GetAlgebraicNotation ==
    \E move \in ScriptedMoves(state) :
          \E answer \in {get_algebraic_notation(state, move)} :
              Asked("get_algebraic_notation", answer)

NextOps ==
    \/ ExecuteScriptedMove
    \/ IsLegalMove
    \/ GetLegalMoves
    \/ IsCheckmate
    \/ IsStalemate
    \/ IsThreefoldRepetition
    \/ IsFiftyMoveRule
    \/ IsInsufficientMaterial
    \/ IsDraw
    \/ GetAlgebraicNotation

SpecOps == Init /\ [][NextOps]_vars

(***************************************************************************)
(* The caller that builds a position without a king.  It plays a scripted  *)
(* game, at some point takes the king of the side to move off the board    *)
(* of the state it holds (board.remove_piece, as the tests set positions   *)
(* up), and from then on only asks.                                        *)
(***************************************************************************)
BothKings(st) ==
    /\ find_king_position(st.board, WHITE) # NoSquare
    /\ find_king_position(st.board, BLACK) # NoSquare

PlayScriptedMove == BothKings(state) /\ ExecuteScriptedMove

RemoveKing ==
    /\ BothKings(state)
    /\ \E king_square \in {find_king_position(state.board, state.current_player)} :
          /\ state' = [state EXCEPT !.board = remove_piece(@, king_square)]
          /\ arg' = state'
          /\ last_op' = "remove_piece"
          /\ last_result' = FALSE
          /\ UNCHANGED <<selected_square, pending_promotion_move>>

IsCheck ==
    /\ ~BothKings(state)
    /\ \E color \in {WHITE, BLACK} :
          \E answer \in {is_check(state.board, color)} :
              Asked("is_check", [ret |-> answer, state |-> state])

LegalMovesWithoutKing == ~BothKings(state) /\ GetLegalMoves

NextNoKing ==
    \/ PlayScriptedMove
    \/ RemoveKing
    \/ IsCheck
    \/ LegalMovesWithoutKing

SpecNoKing == Init /\ [][NextNoKing]_vars

(***************************************************************************)
(* The caller that sets a position up by hand, as the tests do: an empty   *)
(* board with the two kings on e1 and e8 and up to MaxExtras further       *)
(* pieces on the squares of ExtraSquares, wrapped in a GameState whose      *)
(* other fields are the constructor's defaults.  It then asks whether the   *)
(* material is insufficient.                                                *)
(***************************************************************************)
MaxExtras == 2

\* c3, d3, c6 and f6: two squares of each parity of file + rank.
ExtraSquares == {Square(2, 2), Square(3, 2), Square(2, 5), Square(5, 5)}

ExtraPieces ==
    { Piece(piece_type, color) :
        piece_type \in {PAWN, KNIGHT, BISHOP, ROOK, QUEEN},
        color \in {WHITE, BLACK} }

\* The ways of putting at most MaxExtras pieces on the squares.
Placements ==
    UNION { [squares -> ExtraPieces] :
            squares \in { s \in SUBSET ExtraSquares : Cardinality(s) <= MaxExtras } }

\* board.set_piece for the two kings and for each placed piece.
BoardOf(placement) ==
    [r \in 1..8 |-> [f \in 1..8 |->
        IF Square(f - 1, r - 1) \in DOMAIN placement
        THEN placement[Square(f - 1, r - 1)]
        ELSE IF f = 5 /\ r = 1 THEN Piece(KING, WHITE)
        ELSE IF f = 5 /\ r = 8 THEN Piece(KING, BLACK)
        ELSE NoPiece]]

InitMaterial ==
    /\ \E placement \in Placements, current_player \in {WHITE, BLACK} :
          state = GameState(BoardOf(placement), current_player,
                            CastlingRights(TRUE, TRUE, TRUE, TRUE), NoSquare,
                            0, 1, <<>>, <<>>, MULTIPLAYER)
    /\ selected_square = NoSquare
    /\ pending_promotion_move = NoMove
    /\ arg = state
    /\ last_op = "GameState"
    /\ last_result = FALSE

NextMaterial == IsInsufficientMaterial

SpecMaterial == InitMaterial /\ [][NextMaterial]_vars

(***************************************************************************)
(* ai/ai_opponent.py                                                       *)
(***************************************************************************)
PIECE_VALUES(piece_type) ==
    CASE piece_type = PAWN -> 1
      [] piece_type = KNIGHT -> 3
      [] piece_type = BISHOP -> 3
      [] piece_type = ROOK -> 5
      [] piece_type = QUEEN -> 9
      [] piece_type = KING -> 0

\* sum(self.PIECE_VALUES[piece.piece_type] for piece in pieces.values())
Material(board, color) ==
    Only({ counts[PAWN] * PIECE_VALUES(PAWN) + counts[KNIGHT] * PIECE_VALUES(KNIGHT)
           + counts[BISHOP] * PIECE_VALUES(BISHOP) + counts[ROOK] * PIECE_VALUES(ROOK)
           + counts[QUEEN] * PIECE_VALUES(QUEEN) + counts[KING] * PIECE_VALUES(KING) :
           counts \in {_count_pieces_by_type(board, get_all_pieces(board, color))} })

evaluate_position(st) ==
    Material(st.board, st.current_player)
    - Material(st.board, opposite(st.current_player))

find_checkmate_in_one(st, legal_moves) ==
    LET mating == SelectSeq(legal_moves,
                     LAMBDA move : is_checkmate(execute_move(st, move).ret).ret)
    IN  IF mating = <<>> THEN NoMove ELSE Head(mating)

_is_hanging(st, square) ==
    IF get_piece(st.board, square) = NoPiece
    THEN FALSE
    ELSE \E move \in Range(get_legal_moves(st, st.current_player).ret) :
            move.to_square = square /\ move.captured_piece # NoPiece

\* The score select_move gives a move, in tenths (the code subtracts
\* PIECE_VALUES * 0.9 from an integer material count).
MoveScore(st, move) ==
    Only({ 10 * evaluate_position(new_state)
           - (IF move.captured_piece = NoPiece
                 /\ _is_hanging(new_state, move.to_square)
              THEN 9 * PIECE_VALUES(move.piece.piece_type)
              ELSE 0) :
           new_state \in {execute_move(st, move).ret} })

\* The move the evaluation loop keeps: the first of the highest score among
\* the scored <<index, score>> pairs.
BestScored(legal_moves, scored) ==
    legal_moves[(CHOOSE p \in scored :
                    \A q \in scored :
                        p[2] > q[2] \/ (p[2] = q[2] /\ p[1] <= q[1]))[1]]

select_move_none_when_out_of_time(st, evaluated) ==
    Only({ IF Len(legal_moves) = 0
           THEN NoMove
           ELSE Only({ IF checkmate_move # NoMove
                       THEN checkmate_move
                       ELSE IF evaluated = 0
                       THEN NoMove
                       ELSE Only({ BestScored(legal_moves, scored) :
                                   scored \in
                                     {{ <<i, MoveScore(st, legal_moves[i])>> :
                                        i \in 1..(IF evaluated < Len(legal_moves)
                                                  THEN evaluated
                                                  ELSE Len(legal_moves)) }} }) :
                       checkmate_move \in
                         {find_checkmate_in_one(st, legal_moves)} }) :
           legal_moves \in {get_legal_moves(st, st.current_player).ret} })

\* select_move; evaluated is the number of moves the evaluation loop scores
\* before time.time() - start_time exceeds the time limit (none when the
\* limit is already exceeded at the first test).
select_move(st, evaluated) ==
    Only({ IF Len(legal_moves) = 0
           THEN NoMove
           ELSE Only({ IF checkmate_move # NoMove
                       THEN checkmate_move
                       ELSE IF evaluated = 0
                       THEN legal_moves[1]
                       ELSE Only({ BestScored(legal_moves, scored) :
                                   scored \in
                                     {{ <<i, MoveScore(st, legal_moves[i])>> :
                                        i \in 1..(IF evaluated < Len(legal_moves)
                                                  THEN evaluated
                                                  ELSE Len(legal_moves)) }} }) :
                       checkmate_move \in
                         {find_checkmate_in_one(st, legal_moves)} }) :
           legal_moves \in {get_legal_moves(st, st.current_player).ret} })

(***************************************************************************)
(* game_controller.py.  self is the controller's fields; an operation      *)
(* returns the dictionary it answers with (ret) and the fields after the   *)
(* call (self).  A raised ValueError is the action "ValueError" with the   *)
(* fields as they were.                                                    *)
(***************************************************************************)
NoGame == [game_mode |-> "none"]

GameController(st, selected, pending) ==
    [state |-> st, selected_square |-> selected,
     pending_promotion_move |-> pending]

\* The keys 'action', 'move' and 'result' of the returned dictionary.
Answer(action, move, result) ==
    [action |-> action, move |-> move, result |-> result]

Raised(self) == [ret |-> Answer("ValueError", NoMove, "none"), self |-> self]

\* color.value.capitalize()
Capitalized(color) == IF color = WHITE THEN "White" ELSE "Black"

start_new_game(self, mode) ==
    [ret |-> Answer("none", NoMove, "none"),
     self |-> GameController(initialize_game(mode), NoSquare, NoMove)]

_get_legal_moves_for_square(self, square) ==
    IF self.state = NoGame
    THEN <<>>
    ELSE IF get_piece(self.state.board, square) = NoPiece
    THEN <<>>
    ELSE SelectSeq(get_legal_moves(self.state, self.state.current_player).ret,
                   LAMBDA move : move.from_square = square)

_find_move(legal_moves, from_square, to_square) ==
    LET found == SelectSeq(legal_moves,
                    LAMBDA move : /\ move.from_square = from_square
                                  /\ move.to_square = to_square)
    IN  IF found = <<>> THEN NoMove ELSE Head(found)

_is_promotion_move(move) ==
    IF move.piece.piece_type # PAWN
    THEN FALSE
    ELSE IF move.piece.color = WHITE
    THEN move.to_square.rank = 7
    ELSE move.to_square.rank = 0

_get_draw_reason(st) ==
    IF is_stalemate(st).ret THEN "stalemate"
    ELSE IF is_threefold_repetition(st) THEN "threefold repetition"
    ELSE IF is_fifty_move_rule(st) THEN "fifty-move rule"
    ELSE IF is_insufficient_material(st) THEN "insufficient material"
    ELSE "unknown reason"

_get_game_result(st) ==
    IF is_checkmate(st).ret
    THEN "Checkmate! " \o Capitalized(opposite(st.current_player)) \o " wins!"
    ELSE IF is_draw(st).ret
    THEN "Draw by " \o _get_draw_reason(st)
    ELSE "Game in progress"

\* The draw is tested before the checkmate.
_execute_move_and_check_game_state_draw_first(self, move) ==
    Only({ [ret |-> IF is_draw(new_state).ret
                    THEN Answer("game_over", move,
                             "Draw by " \o _get_draw_reason(new_state))
                    ELSE IF is_checkmate(new_state).ret
                    THEN Answer("game_over", move,
                             "Checkmate! "
                             \o Capitalized(opposite(new_state.current_player))
                             \o " wins!")
                    ELSE Answer("move_executed", move, "none"),
            self |-> GameController(new_state, NoSquare,
                                    self.pending_promotion_move)] :
           new_state \in {execute_move(self.state, move).ret} })

_execute_move_and_check_game_state(self, move) ==
    Only({ [ret |-> IF is_checkmate(new_state).ret
                    THEN Answer("game_over", move,
                             "Checkmate! "
                             \o Capitalized(opposite(new_state.current_player))
                             \o " wins!")
                    ELSE IF is_draw(new_state).ret
                    THEN Answer("game_over", move,
                             "Draw by " \o _get_draw_reason(new_state))
                    ELSE Answer("move_executed", move, "none"),
            self |-> GameController(new_state, NoSquare,
                                    self.pending_promotion_move)] :
           new_state \in {execute_move(self.state, move).ret} })

handle_move_attempt_keeping_selection(self, from_square, to_square) ==
    IF self.state = NoGame
    THEN Raised(self)
    ELSE Only({ IF move = NoMove
                THEN [ret |-> Answer("invalid_move", NoMove, "none"),
                      self |-> self]
                ELSE IF _is_promotion_move(move)
                THEN [ret |-> Answer("promotion_required", move, "none"),
                      self |-> [self EXCEPT !.pending_promotion_move = move]]
                ELSE _execute_move_and_check_game_state(self, move) :
                move \in {_find_move(_get_legal_moves_for_square(self, from_square),
                                     from_square, to_square)} })

handle_move_attempt(self, from_square, to_square) ==
    IF self.state = NoGame
    THEN Raised(self)
    ELSE Only({ IF move = NoMove
                THEN [ret |-> Answer("invalid_move", NoMove, "none"),
                      self |-> [self EXCEPT !.selected_square = NoSquare]]
                ELSE IF _is_promotion_move(move)
                THEN [ret |-> Answer("promotion_required", move, "none"),
                      self |-> [self EXCEPT !.pending_promotion_move = move]]
                ELSE _execute_move_and_check_game_state(self, move) :
                move \in {_find_move(_get_legal_moves_for_square(self, from_square),
                                     from_square, to_square)} })

\* Any piece is selected, whatever its colour.
handle_square_selection_of_any_piece(self, square) ==
    IF self.state = NoGame
    THEN Raised(self)
    ELSE IF self.pending_promotion_move # NoMove
    THEN [ret |-> Answer("promotion_required", NoMove, "none"), self |-> self]
    ELSE IF self.selected_square = NoSquare
    THEN IF get_piece(self.state.board, square) # NoPiece
         THEN [ret |-> Answer("selected", NoMove, "none"),
               self |-> [self EXCEPT !.selected_square = square]]
         ELSE [ret |-> Answer("cleared", NoMove, "none"), self |-> self]
    ELSE IF get_piece(self.state.board, square).color = self.state.current_player
    THEN [ret |-> Answer("selected", NoMove, "none"),
          self |-> [self EXCEPT !.selected_square = square]]
    ELSE handle_move_attempt(self, self.selected_square, square)

handle_square_selection(self, square) ==
    IF self.state = NoGame
    THEN Raised(self)
    ELSE IF self.pending_promotion_move # NoMove
    THEN [ret |-> Answer("promotion_required", NoMove, "none"), self |-> self]
    ELSE IF self.selected_square = NoSquare
    THEN IF get_piece(self.state.board, square).color = self.state.current_player
         THEN [ret |-> Answer("selected", NoMove, "none"),
               self |-> [self EXCEPT !.selected_square = square]]
         ELSE [ret |-> Answer("cleared", NoMove, "none"), self |-> self]
    ELSE IF get_piece(self.state.board, square).color = self.state.current_player
    THEN [ret |-> Answer("selected", NoMove, "none"),
          self |-> [self EXCEPT !.selected_square = square]]
    ELSE handle_move_attempt(self, self.selected_square, square)

handle_promotion_choice(self, piece_type) ==
    IF self.state = NoGame
    THEN Raised(self)
    ELSE IF self.pending_promotion_move = NoMove
    THEN Raised(self)
    ELSE IF piece_type \notin {QUEEN, ROOK, BISHOP, KNIGHT}
    THEN Raised(self)
    ELSE _execute_move_and_check_game_state(
             [self EXCEPT !.pending_promotion_move = NoMove],
             [self.pending_promotion_move EXCEPT !.promotion_piece = piece_type])

generate_ai_move_in_any_mode(self, evaluated) ==
    IF self.state = NoGame
    THEN [ret |-> Answer("none", NoMove, "none"), self |-> self]
    ELSE IF self.state.current_player # BLACK
    THEN [ret |-> Answer("none", NoMove, "none"), self |-> self]
    ELSE Only({ IF move = NoMove
                THEN [ret |-> Answer("game_over", NoMove,
                                     _get_game_result(self.state)),
                      self |-> self]
                ELSE _execute_move_and_check_game_state(self, move) :
                move \in {select_move(self.state, evaluated)} })

\* generate_ai_move; evaluated is passed on to select_move.
generate_ai_move(self, evaluated) ==
    IF self.state = NoGame
    THEN [ret |-> Answer("none", NoMove, "none"), self |-> self]
    ELSE IF self.state.game_mode # SINGLE_PLAYER
    THEN [ret |-> Answer("none", NoMove, "none"), self |-> self]
    ELSE IF self.state.current_player # BLACK
    THEN [ret |-> Answer("none", NoMove, "none"), self |-> self]
    ELSE Only({ IF move = NoMove
                THEN [ret |-> Answer("game_over", NoMove,
                                     _get_game_result(self.state)),
                      self |-> self]
                ELSE _execute_move_and_check_game_state(self, move) :
                move \in {select_move(self.state, evaluated)} })

(***************************************************************************)
(* The caller of the controller.  It constructs a controller and then      *)
(* calls its operations in any order.  The squares it clicks are those of   *)
(* the next plies of the Sessions that the moves played so far follow (in   *)
(* a single-player game, of the last Session only), and the squares of      *)
(* Elsewhere; the promotion types it asks for are those of Choices.  It     *)
(* may also hand the engine's execute_move a promotion request of its own   *)
(* making for the position the controller holds.                            *)
(***************************************************************************)
Sessions ==
  <<
    \* a2a4 b7b5 a4b5 a7a6 b5a6 c8b7 a6b7 b8c6 b7a8
    <<<<0, 1, 0, 3>>, <<1, 6, 1, 4>>, <<0, 3, 1, 4>>, <<0, 6, 0, 5>>,
       <<1, 4, 0, 5>>, <<2, 7, 1, 6>>, <<0, 5, 1, 6>>, <<1, 7, 2, 5>>,
       <<1, 6, 0, 7>>>>,
    \* a2a4 b7b5 a4b5 a7a6 b5a6 c8b7 a6b7 b8c6 b7b8
    <<<<0, 1, 0, 3>>, <<1, 6, 1, 4>>, <<0, 3, 1, 4>>, <<0, 6, 0, 5>>,
       <<1, 4, 0, 5>>, <<2, 7, 1, 6>>, <<0, 5, 1, 6>>, <<1, 7, 2, 5>>,
       <<1, 6, 1, 7>>>>,
    \* a2a4 b7b5 a4b5 a7a6 b5a6 c8b7 a6b7 b8c6 a1a7
    <<<<0, 1, 0, 3>>, <<1, 6, 1, 4>>, <<0, 3, 1, 4>>, <<0, 6, 0, 5>>,
       <<1, 4, 0, 5>>, <<2, 7, 1, 6>>, <<0, 5, 1, 6>>, <<1, 7, 2, 5>>,
       <<0, 0, 0, 6>>>>,
    \* f2f3 e7e5 g2g4 d8h4
    <<<<5, 1, 5, 2>>, <<4, 6, 4, 4>>, <<6, 1, 6, 3>>, <<3, 7, 7, 3>>>>
  >>

\* The piece types asked for as a promotion: two that a pawn may become
\* and the two it may not.
Choices == {QUEEN, KNIGHT, KING, PAWN}

\* e8
Elsewhere == {Square(4, 7)}

\* The number of moves the opponent gets to score within its time limit:
\* none, one, or all (no position has more than 218 legal moves).
TimeBudgets == {0, 1, 218}

Clicks(st) ==
    IF st = NoGame
    THEN Elsewhere
    ELSE Elsewhere
         \cup UNION { {Square(ply[1], ply[2]), Square(ply[3], ply[4])} :
                      ply \in { Sessions[s][Len(st.move_history) + 1] :
                                s \in { t \in 1..Len(Sessions) :
                                          /\ st.game_mode = SINGLE_PLAYER
                                               => t = Len(Sessions)
                                          /\ Len(st.move_history) < Len(Sessions[t])
                                          /\ IsPrefix(Played(st), Sessions[t]) } } }

Self == GameController(state, selected_square, pending_promotion_move)

\* What a call was given, where the squares clicked or the time the
\* opponent took are not kept.
NotKept == [kept |-> FALSE]

\* The caller keeps nothing but the controller; the call's answer is
\* last_result and what was passed is arg, under the parameter's name.
Called(op, passed, outcome) ==
    /\ state' = outcome.self.state
    /\ selected_square' = outcome.self.selected_square
    /\ pending_promotion_move' = outcome.self.pending_promotion_move
    /\ arg' = passed
    /\ last_op' = op
    /\ last_result' = outcome.ret

InitController ==
    /\ state = NoGame
    /\ selected_square = NoSquare
    /\ pending_promotion_move = NoMove
    /\ arg = NoGame
    /\ last_op = "__init__"
    /\ last_result = Answer("none", NoMove, "none")

StartNewGame ==
    \E mode \in {SINGLE_PLAYER, MULTIPLAYER} :
        \E outcome \in {start_new_game(Self, mode)} :
            Called("start_new_game", [mode |-> mode], outcome)

HandleSquareSelection ==
    \E square \in Clicks(state) :
        \E outcome \in {handle_square_selection(Self, square)} :
            Called("handle_square_selection", NotKept, outcome)

HandleMoveAttempt ==
    \E from_square \in Clicks(state), to_square \in Clicks(state) :
        \E outcome \in {handle_move_attempt(Self, from_square, to_square)} :
            Called("handle_move_attempt", NotKept, outcome)

HandlePromotionChoice ==
    \E piece_type \in Choices :
        \E outcome \in {handle_promotion_choice(Self, piece_type)} :
            Called("handle_promotion_choice", [piece_type |-> piece_type], outcome)

GenerateAIMove ==
    \E evaluated \in TimeBudgets :
        \E outcome \in {generate_ai_move(Self, evaluated)} :
            Called("generate_ai_move", NotKept, outcome)

\* The pawn moves onto the last rank that the generator yields for the side
\* to move, each with the promotion type replaced by one of Choices.
PromotionRequests(st) ==
    { [move EXCEPT !.promotion_piece = piece_type] :
        move \in { m \in Range(generate_pseudo_legal_moves(st, st.current_player)) :
                     m.promotion_piece # NoPromotion },
        piece_type \in Choices }

\* engine.execute_move(controller.state, move), called while the controller
\* has nothing selected and nothing pending: the controller is left as it
\* is, the returned state is last_result and the move passed is arg.
ExecutePromotion ==
    /\ state # NoGame
    /\ selected_square = NoSquare
    /\ pending_promotion_move = NoMove
    /\ \E move \in PromotionRequests(state) :
          \E executed \in {execute_move(state, move)} :
              /\ arg' = move
              /\ last_op' = "execute_move"
              /\ last_result' = executed.ret
              /\ UNCHANGED <<state, selected_square, pending_promotion_move>>

NextController ==
    \/ StartNewGame
    \/ HandleSquareSelection
    \/ HandleMoveAttempt
    \/ HandlePromotionChoice
    \/ GenerateAIMove
    \/ ExecutePromotion

SpecController == InitController /\ [][NextController]_vars

(***************************************************************************)
(* The caller that attempts moves.  It starts a game, selects squares and  *)
(* attempts moves between any two of the squares of Clicks, legal or not;  *)
(* the two squares of an attempt are kept in arg.                          *)
(***************************************************************************)
HandleMoveAttemptBetween ==
    \E from_square \in Clicks(state), to_square \in Clicks(state) :
        \E outcome \in {handle_move_attempt(Self, from_square, to_square)} :
            Called("handle_move_attempt",
                   [from_square |-> from_square, to_square |-> to_square],
                   outcome)

NextAttempts ==
    \/ StartNewGame
    \/ HandleSquareSelection
    \/ HandleMoveAttemptBetween

SpecAttempts == InitController /\ [][NextAttempts]_vars

(***************************************************************************)
(* models/square.py: construction with its bounds test, and the parsing of *)
(* algebraic notation.  A notation is a string; a raised ValueError is the *)
(* value ValueError.                                                       *)
(***************************************************************************)
ValueError == [raised |-> "ValueError"]

\* Square.__init__ as a caller reaches it, with any two integers.
Square_init_clamping(file, rank) ==
    Square(IF file < 0 THEN 0 ELSE IF file > 7 THEN 7 ELSE file,
           IF rank < 0 THEN 0 ELSE IF rank > 7 THEN 7 ELSE rank)

Square_init(file, rank) ==
    IF ~(0 <= file /\ file <= 7) THEN ValueError
    ELSE IF ~(0 <= rank /\ rank <= 7) THEN ValueError
    ELSE Square(file, rank)

\* The characters the notations below are made of, and Python's ord of each.
Letters == <<"a", "b", "c", "d", "e", "f", "g", "h", "i">>

Capitals == <<"A", "B", "C", "D", "E", "F", "G", "H", "I">>

Digits == <<"0", "1", "2", "3", "4", "5", "6", "7", "8", "9">>

ord(char) ==
    IF \E i \in 1..Len(Letters) : Letters[i] = char
    THEN 96 + Only({ i \in 1..Len(Letters) : Letters[i] = char })
    ELSE IF \E i \in 1..Len(Capitals) : Capitals[i] = char
    THEN 64 + Only({ i \in 1..Len(Capitals) : Capitals[i] = char })
    ELSE IF \E i \in 1..Len(Digits) : Digits[i] = char
    THEN 47 + Only({ i \in 1..Len(Digits) : Digits[i] = char })
    ELSE 32

\* str.lower of one character: a capital becomes its letter, any other
\* character is kept.
lower(char) ==
    IF \E i \in 1..Len(Capitals) : Capitals[i] = char
    THEN Letters[Only({ i \in 1..Len(Capitals) : Capitals[i] = char })]
    ELSE char

\* Python's  part in text  for strings: part occurs in text as a substring.
In(part, text) ==
    \E i \in 1..(Len(text) - Len(part) + 1) :
        SubSeq(text, i, i + Len(part) - 1) = part

\* int(char) of a decimal digit.
int(char) == ord(char) - ord("0")

from_algebraic_rank_not_shifted(notation) ==
    IF Len(notation) # 2 THEN ValueError
    ELSE IF ~In(lower(SubSeq(notation, 1, 1)), "abcdefgh") THEN ValueError
    ELSE IF ~In(SubSeq(notation, 2, 2), "12345678") THEN ValueError
    ELSE Square_init(ord(lower(SubSeq(notation, 1, 1))) - ord("a"),
                     int(SubSeq(notation, 2, 2)))

from_algebraic(notation) ==
    IF Len(notation) # 2 THEN ValueError
    ELSE LET file_char == lower(SubSeq(notation, 1, 1))
             rank_char == SubSeq(notation, 2, 2)
         IN  IF ~In(file_char, "abcdefgh") THEN ValueError
             ELSE IF ~In(rank_char, "12345678") THEN ValueError
             ELSE Square_init(ord(file_char) - ord("a"), int(rank_char) - 1)

(***************************************************************************)
(* The caller of Square.  It holds either two integers, from which it      *)
(* constructs a Square and converts it to notation and back, or a string   *)
(* of up to MaxLen characters, which it parses.  The integers go Beyond    *)
(* the board on both sides; the first two characters are file letters,     *)
(* rank digits, their neighbours "i", "0" and "9", two capitals or the     *)
(* space, and each further character is one of three.                      *)
(***************************************************************************)
MaxLen == 3

Beyond == 2

Coordinates == (0 - Beyond)..(7 + Beyond)

Alphabet ==
    {"a", "b", "c", "d", "e", "f", "g", "h", "i", "A", "H",
     "0", "1", "2", "3", "4", "5", "6", "7", "8", "9", " "}

Further == {"e", "4", " "}

RECURSIVE Strings(_)
Strings(length) ==
    IF length = 0 THEN {""}
    ELSE { string \o char : string \in Strings(length - 1),
                            char \in IF length <= 2 THEN Alphabet ELSE Further }

Notations == UNION { Strings(length) : length \in 0..MaxLen }

NoneReturned == [returned |-> FALSE]

InitSquare ==
    /\ state = NoGame
    /\ selected_square = NoSquare
    /\ pending_promotion_move = NoMove
    /\ arg \in { [file |-> file, rank |-> rank] :
                   file \in Coordinates, rank \in Coordinates }
               \cup { [notation |-> notation] : notation \in Notations }
    /\ last_op = "input"
    /\ last_result = NoneReturned

NewSquare ==
    /\ last_op = "input"
    /\ "file" \in DOMAIN arg
    /\ last_op' = "Square"
    /\ last_result' = Square_init(arg.file, arg.rank)
    /\ UNCHANGED <<state, selected_square, pending_promotion_move, arg>>

ToAlgebraic ==
    /\ last_op = "Square"
    /\ last_result # ValueError
    /\ last_op' = "to_algebraic"
    /\ last_result' = [notation |-> to_algebraic(last_result)]
    /\ UNCHANGED <<state, selected_square, pending_promotion_move, arg>>

\* from_algebraic of the string the caller holds: the one it was given, or
\* the one to_algebraic has returned.
FromAlgebraic ==
    /\ \/ last_op = "to_algebraic"
       \/ last_op = "input" /\ "notation" \in DOMAIN arg
    /\ last_op' = "from_algebraic"
    /\ last_result' = from_algebraic(IF last_op = "input" THEN arg.notation
                                      ELSE last_result.notation)
    /\ UNCHANGED <<state, selected_square, pending_promotion_move, arg>>

NextSquare ==
    \/ NewSquare
    \/ ToAlgebraic
    \/ FromAlgebraic

SpecSquare == InitSquare /\ [][NextSquare]_vars

(***************************************************************************)
(* The caller of the notation.  It sets a position up by hand, as the      *)
(* tests do, and then asks for the disambiguation flags of a legal move,   *)
(* or renders a legal move with flags of its own choice.  The positions    *)
(* are: one to MaxSame white pieces of one type on b1, d1, b5 and d5 with  *)
(* the kings on e1 and h8; a pinned rook beside a free one; and, for each  *)
(* colour, a position with both castlings, an en-passant capture and       *)
(* promotions with and without capture.                                    *)
(***************************************************************************)
MaxSame == 3

SamePieceSquares == {Square(1, 0), Square(3, 0), Square(1, 4), Square(3, 4)}

\* board.set_piece for each placed piece, on an empty board.
Placed(placement) ==
    [r \in 1..8 |-> [f \in 1..8 |->
        IF Square(f - 1, r - 1) \in DOMAIN placement
        THEN placement[Square(f - 1, r - 1)]
        ELSE NoPiece]]

\* The function with the given set of <<square, piece>> pairs as its graph.
Placement(pairs) ==
    [square \in { pair[1] : pair \in pairs } |->
        Only({ pair[2] : pair \in { q \in pairs : q[1] = square } })]

SamePiecePositions ==
    { GameState(Placed(Placement(
                    { <<square, Piece(piece_type, WHITE)>> : square \in squares }
                    \cup { <<Square(4, 0), Piece(KING, WHITE)>>,
                           <<Square(7, 7), Piece(KING, BLACK)>> })),
                WHITE, CastlingRights(FALSE, FALSE, FALSE, FALSE), NoSquare,
                0, 1, <<>>, <<>>, MULTIPLAYER) :
        piece_type \in {KNIGHT, BISHOP, ROOK, QUEEN},
        squares \in { s \in SUBSET SamePieceSquares :
                        1 <= Cardinality(s) /\ Cardinality(s) <= MaxSame } }

\* White rooks on a4 and h4, the latter pinned to the king on h1 by the
\* rook on h8.
PinnedRookPosition ==
    GameState(Placed(Placement(
                  { <<Square(0, 3), Piece(ROOK, WHITE)>>,
                    <<Square(7, 3), Piece(ROOK, WHITE)>>,
                    <<Square(7, 0), Piece(KING, WHITE)>>,
                    <<Square(7, 7), Piece(ROOK, BLACK)>>,
                    <<Square(4, 7), Piece(KING, BLACK)>> })),
              WHITE, CastlingRights(FALSE, FALSE, FALSE, FALSE), NoSquare,
              0, 1, <<>>, <<>>, MULTIPLAYER)

\* White to move: castling on either side, e5xd6 en passant, b7-b8 and
\* b7xa8 promoting.
WhiteFeaturesPosition ==
    GameState(Placed(Placement(
                  { <<Square(4, 0), Piece(KING, WHITE)>>,
                    <<Square(0, 0), Piece(ROOK, WHITE)>>,
                    <<Square(7, 0), Piece(ROOK, WHITE)>>,
                    <<Square(4, 4), Piece(PAWN, WHITE)>>,
                    <<Square(1, 6), Piece(PAWN, WHITE)>>,
                    <<Square(4, 7), Piece(KING, BLACK)>>,
                    <<Square(0, 7), Piece(KNIGHT, BLACK)>>,
                    <<Square(3, 4), Piece(PAWN, BLACK)>> })),
              WHITE, CastlingRights(TRUE, TRUE, FALSE, FALSE), Square(3, 5),
              0, 1, <<>>, <<>>, MULTIPLAYER)

\* Black to move: castling on either side, e4xd3 en passant, b2-b1 and
\* b2xa1 promoting.
BlackFeaturesPosition ==
    GameState(Placed(Placement(
                  { <<Square(4, 7), Piece(KING, BLACK)>>,
                    <<Square(0, 7), Piece(ROOK, BLACK)>>,
                    <<Square(7, 7), Piece(ROOK, BLACK)>>,
                    <<Square(4, 3), Piece(PAWN, BLACK)>>,
                    <<Square(1, 1), Piece(PAWN, BLACK)>>,
                    <<Square(4, 0), Piece(KING, WHITE)>>,
                    <<Square(0, 0), Piece(KNIGHT, WHITE)>>,
                    <<Square(3, 3), Piece(PAWN, WHITE)>> })),
              BLACK, CastlingRights(FALSE, FALSE, TRUE, TRUE), Square(3, 2),
              0, 1, <<>>, <<>>, MULTIPLAYER)

NotationPositions ==
    SamePiecePositions
    \cup {PinnedRookPosition, WhiteFeaturesPosition, BlackFeaturesPosition}

InitNotation ==
    /\ state \in NotationPositions
    /\ selected_square = NoSquare
    /\ pending_promotion_move = NoMove
    /\ arg = [move |-> NoMove]
    /\ last_op = "GameState"
    /\ last_result = NoneReturned

GetDisambiguation ==
    /\ last_op = "GameState"
    /\ \E move \in Range(get_legal_moves(state, state.current_player).ret) :
          \E answer \in {_get_disambiguation(state, move)} :
              /\ state' = answer.state
              /\ arg' = [move |-> move]
              /\ last_op' = "_get_disambiguation"
              /\ last_result' = [disambiguate_file |-> answer.ret[1],
                                 disambiguate_rank |-> answer.ret[2]]
    /\ UNCHANGED <<selected_square, pending_promotion_move>>

ToAlgebraicNotation ==
    /\ last_op = "GameState"
    /\ \E move \in Range(get_legal_moves(state, state.current_player).ret) :
          \E is_check_ \in BOOLEAN, is_checkmate_ \in BOOLEAN,
             disambiguate_file \in BOOLEAN, disambiguate_rank \in BOOLEAN :
              /\ arg' = [move |-> move,
                         is_check |-> is_check_,
                         is_checkmate |-> is_checkmate_,
                         disambiguate_file |-> disambiguate_file,
                         disambiguate_rank |-> disambiguate_rank]
              /\ last_op' = "to_algebraic_notation"
              /\ last_result' =
                    [notation |-> to_algebraic_notation(move, is_check_,
                                      is_checkmate_, disambiguate_file,
                                      disambiguate_rank)]
    /\ UNCHANGED <<state, selected_square, pending_promotion_move>>

NextNotation ==
    \/ GetDisambiguation
    \/ ToAlgebraicNotation

SpecNotation == InitNotation /\ [][NextNotation]_vars

(***************************************************************************)
(* The caller of the opponent.  It sets a position up by hand, as the      *)
(* tests do, and asks the opponent for a move of the side to move; the     *)
(* number of moves the opponent scores within its time limit is any of     *)
(* TimeBudgets and is kept in arg.  The positions are those of the         *)
(* notation's caller, the stalemate of the tests, a checkmate, and a       *)
(* position with a mate in one.                                            *)
(***************************************************************************)
\* Black king a1, white king b3, white queen c2: Black to move has no move.
StalematePosition ==
    GameState(Placed(Placement(
                  { <<Square(0, 0), Piece(KING, BLACK)>>,
                    <<Square(1, 2), Piece(KING, WHITE)>>,
                    <<Square(2, 1), Piece(QUEEN, WHITE)>> })),
              BLACK, CastlingRights(FALSE, FALSE, FALSE, FALSE), NoSquare,
              0, 1, <<>>, <<>>, SINGLE_PLAYER)

\* The same with the queen on b2: Black to move is checkmated.
CheckmatePosition ==
    GameState(Placed(Placement(
                  { <<Square(0, 0), Piece(KING, BLACK)>>,
                    <<Square(1, 2), Piece(KING, WHITE)>>,
                    <<Square(1, 1), Piece(QUEEN, WHITE)>> })),
              BLACK, CastlingRights(FALSE, FALSE, FALSE, FALSE), NoSquare,
              0, 1, <<>>, <<>>, SINGLE_PLAYER)

\* Black king b3 and queen c7 against the white king on a1 and a white
\* pawn on h2: Black to move mates with the queen on c1.
MateInOnePosition ==
    GameState(Placed(Placement(
                  { <<Square(1, 2), Piece(KING, BLACK)>>,
                    <<Square(2, 6), Piece(QUEEN, BLACK)>>,
                    <<Square(0, 0), Piece(KING, WHITE)>>,
                    <<Square(7, 1), Piece(PAWN, WHITE)>> })),
              BLACK, CastlingRights(FALSE, FALSE, FALSE, FALSE), NoSquare,
              0, 1, <<>>, <<>>, SINGLE_PLAYER)

OpponentPositions ==
    NotationPositions
    \cup {StalematePosition, CheckmatePosition, MateInOnePosition}

InitOpponent ==
    /\ state \in OpponentPositions
    /\ selected_square = NoSquare
    /\ pending_promotion_move = NoMove
    /\ arg = [evaluated |-> -1]
    /\ last_op = "GameState"
    /\ last_result = NoneReturned

SelectMove ==
    /\ last_op = "GameState"
    /\ \E evaluated \in TimeBudgets :
          \E move \in {select_move(state, evaluated)} :
              /\ arg' = [evaluated |-> evaluated]
              /\ last_op' = "select_move"
              /\ last_result' = [move |-> move]
    /\ UNCHANGED <<state, selected_square, pending_promotion_move>>

NextOpponent == SelectMove

SpecOpponent == InitOpponent /\ [][NextOpponent]_vars

(***************************************************************************)
(* The caller of the controller near the end of a game.  As the test of    *)
(* the promotion choice does, it sets up a position in the state of a      *)
(* controller, and then calls                                              *)
(* the operations in any order on the squares of EndingClicks, until       *)
(* EndingPlies plies after Black's thirty-ninth move have been played.     *)
(* The positions are those before White's fortieth move or before Black's  *)
(* thirty-ninth, one ply away from a stalemate, a checkmate, bare kings    *)
(* with a knight, the hundredth halfmove and the third occurrence of a     *)
(* position.                                                               *)
(***************************************************************************)
EndingPlies == 1

\* The number of plies played in the game when the position was reached.
PliesPlayed(st) ==
    2 * (st.fullmove_number - 1) + (IF st.current_player = BLACK THEN 1 ELSE 0)

AtMoveForty(st) ==
    [st EXCEPT !.fullmove_number = IF st.current_player = WHITE THEN 40 ELSE 39]

CallingOn ==
    PliesPlayed(state)
       < PliesPlayed(AtMoveForty([state EXCEPT !.current_player = WHITE])) + EndingPlies

\* White king b3, queen c8 and pawn h7 against the black king on a1, White
\* to move: Qc2 stalemates, Qc1 mates, Qc7 does neither, h8 promotes.
QueenEnding(halfmove_clock) ==
    AtMoveForty(
        GameState(Placed(Placement(
                      { <<Square(0, 0), Piece(KING, BLACK)>>,
                        <<Square(1, 2), Piece(KING, WHITE)>>,
                        <<Square(2, 7), Piece(QUEEN, WHITE)>>,
                        <<Square(7, 6), Piece(PAWN, WHITE)>> })),
                  WHITE, CastlingRights(FALSE, FALSE, FALSE, FALSE), NoSquare,
                  halfmove_clock, 1, <<>>, <<>>, SINGLE_PLAYER))

\* MateInOnePosition before Black's move 39: the queen mates on c1.
BlackQueenEnding(halfmove_clock) ==
    AtMoveForty([MateInOnePosition EXCEPT !.halfmove_clock = halfmove_clock])

\* White king e4 and a knight against the black king and a pawn on e5.
KnightAndPawn(knight_square, king_square, current_player, halfmove_clock, fullmove_number, move_history, position_history) ==
    GameState(Placed(Placement(
                  { <<king_square, Piece(KING, BLACK)>>,
                    <<Square(4, 4), Piece(PAWN, BLACK)>>,
                    <<Square(4, 3), Piece(KING, WHITE)>>,
                    <<knight_square, Piece(KNIGHT, WHITE)>> })),
              current_player, CastlingRights(FALSE, FALSE, FALSE, FALSE),
              NoSquare, halfmove_clock, fullmove_number, move_history,
              position_history, SINGLE_PLAYER)

\* Knight b1, king a8, White to move at move 40: Kxe5 leaves king and
\* knight against king.
KnightEnding ==
    Only({ [st EXCEPT !.position_history = <<compute_position_hash(st)>>] :
           st \in {KnightAndPawn(Square(1, 0), Square(0, 7), WHITE, 0, 40,
                                 <<>>, <<>>)} })

\* The game b1c3 a8b8 c3b1 b8a8 b1c3 a8b8 c3b1 from that position at move
\* 36: Black to move at move 39, and b8a8 brings the first position about
\* for the third time.
RepeatedEnding ==
    Only({ KnightAndPawn(Square(1, 0), Square(1, 7), BLACK, 7, 39,
                         out \o back \o out \o SubSeq(back, 1, 1),
                         hashes \o hashes) :
           out \in { << Move(Square(1, 0), Square(2, 2), Piece(KNIGHT, WHITE),
                            NoPiece, NoPromotion, FALSE, FALSE),
                       Move(Square(0, 7), Square(1, 7), Piece(KING, BLACK),
                            NoPiece, NoPromotion, FALSE, FALSE) >> },
           back \in { << Move(Square(2, 2), Square(1, 0), Piece(KNIGHT, WHITE),
                             NoPiece, NoPromotion, FALSE, FALSE),
                        Move(Square(1, 7), Square(0, 7), Piece(KING, BLACK),
                             NoPiece, NoPromotion, FALSE, FALSE) >> },
           hashes \in { << compute_position_hash(
                              KnightAndPawn(Square(1, 0), Square(0, 7), WHITE,
                                            0, 1, <<>>, <<>>)),
                          compute_position_hash(
                              KnightAndPawn(Square(2, 2), Square(0, 7), BLACK,
                                            0, 1, <<>>, <<>>)),
                          compute_position_hash(
                              KnightAndPawn(Square(2, 2), Square(1, 7), WHITE,
                                            0, 1, <<>>, <<>>)),
                          compute_position_hash(
                              KnightAndPawn(Square(1, 0), Square(1, 7), BLACK,
                                            0, 1, <<>>, <<>>)) >> } })

EndingPositions ==
    { QueenEnding(0), QueenEnding(99), BlackQueenEnding(0), BlackQueenEnding(99),
      KnightEnding, RepeatedEnding }

\* a1 b1 c1 c2 c8 a8 b8 e4 e5 h7 h8
EndingClicks ==
    { Square(0, 0), Square(1, 0), Square(2, 0), Square(2, 1), Square(2, 7),
      Square(0, 7), Square(1, 7), Square(4, 3), Square(4, 4), Square(7, 6),
      Square(7, 7) }

InitEnding ==
    /\ state \in EndingPositions
    /\ selected_square = NoSquare
    /\ pending_promotion_move = NoMove
    /\ arg = NotKept
    /\ last_op = "GameState"
    /\ last_result = Answer("none", NoMove, "none")

SelectEndingSquare ==
    /\ CallingOn
    /\ \E square \in EndingClicks :
          \E outcome \in {handle_square_selection(Self, square)} :
              Called("handle_square_selection", NotKept, outcome)

AttemptEndingMove ==
    /\ CallingOn
    /\ \E from_square \in EndingClicks, to_square \in EndingClicks :
          \E outcome \in {handle_move_attempt(Self, from_square, to_square)} :
              Called("handle_move_attempt", NotKept, outcome)

ChooseEndingPromotion ==
    /\ CallingOn
    /\ \E piece_type \in Choices :
          \E outcome \in {handle_promotion_choice(Self, piece_type)} :
              Called("handle_promotion_choice", [piece_type |-> piece_type], outcome)

GenerateEndingAIMove ==
    /\ CallingOn
    /\ \E evaluated \in TimeBudgets :
          \E outcome \in {generate_ai_move(Self, evaluated)} :
              Called("generate_ai_move", NotKept, outcome)

NextEnding ==
    \/ SelectEndingSquare
    \/ AttemptEndingMove
    \/ ChooseEndingPromotion
    \/ GenerateEndingAIMove

SpecEnding == InitEnding /\ [][NextEnding]_vars

(***************************************************************************)
(* Properties.                                                             *)
(***************************************************************************)
\* The values the engine returns, for a state the caller holds.
LegalMoves(st) == get_legal_moves(st, st.current_player).ret

PseudoLegalMoves(st) == generate_pseudo_legal_moves(st, st.current_player)

Execute(st, move) == execute_move(st, move).ret

\* Execute(st, move).board, without computing the rest of the new state.
ExecutedBoard(st, move) == ExecuteOnBoard(copy(st).ret.board, move)

\* C1: in every position reached by legal play, no legal move of the side to
\* move leaves the mover's own king in check in the position execute_move
\* returns; castling, en-passant and promotion moves included.
C1_NoSelfCheck ==
    \A m \in Range(LegalMoves(state)) :
        ~is_check(ExecutedBoard(state, m), state.current_player)

\* A game in which a castling move, an en-passant capture, a promotion and
\* ordinary moves were all offered as legal and executed.
C1_Witness ==
    /\ \E m \in Range(state.move_history) : m.is_castling
    /\ \E m \in Range(state.move_history) : m.is_en_passant
    /\ \E m \in Range(state.move_history) : m.promotion_piece # NoPromotion
    /\ state.move_history[1].piece.piece_type = KNIGHT

InCheck(st) == is_check(st.board, st.current_player)

LastMove(st) == st.move_history[Len(st.move_history)]

\* C2: is_checkmate is true exactly when the side to move is in check and
\* has no legal move, is_stalemate exactly when it is not in check and has
\* no legal move, and the two are never both true.
C2_CheckmateStalemate ==
    LET none == LegalMoves(state) = <<>>
        checkmate == is_checkmate(state).ret
        stalemate == is_stalemate(state).ret
    IN  /\ checkmate <=> (InCheck(state) /\ none)
        /\ stalemate <=> (~InCheck(state) /\ none)
        /\ ~(checkmate /\ stalemate)

\* The side to move is in check without a legal move, and is_checkmate
\* says so.
C2_Witness ==
    /\ InCheck(state)
    /\ LegalMoves(state) = <<>>
    /\ is_checkmate(state).ret
    /\ PseudoLegalMoves(state) # <<>>

\* C3: execute_move never turns a castling right from false to true.
C3_RightsNeverRestored ==
    [][/\ ~state.castling_rights.white_kingside
            => ~state'.castling_rights.white_kingside
       /\ ~state.castling_rights.white_queenside
            => ~state'.castling_rights.white_queenside
       /\ ~state.castling_rights.black_kingside
            => ~state'.castling_rights.black_kingside
       /\ ~state.castling_rights.black_queenside
            => ~state'.castling_rights.black_queenside]_vars

\* White's kingside right stays revoked although the king and the h1 rook
\* stand on their home squares again; the queenside right is still held.
C3_Witness ==
    /\ ~state.castling_rights.white_kingside
    /\ state.castling_rights.white_queenside
    /\ get_piece(state.board, Square(4, 0)) = Piece(KING, WHITE)
    /\ get_piece(state.board, Square(7, 0)) = Piece(ROOK, WHITE)
    /\ Len(state.move_history) >= 5

\* A two-square pawn advance, and the square it passes over.
IsDoubleAdvance(move) ==
    /\ move.piece.piece_type = PAWN
    /\ Abs(move.to_square.rank - move.from_square.rank) = 2

PassedSquare(move) ==
    Square(move.from_square.file,
           (move.from_square.rank + move.to_square.rank) \div 2)

\* The position was produced directly by the opponent's two-square pawn
\* advance over square t.
JustAdvancedOver(st, t) ==
    /\ st.move_history # <<>>
    /\ IsDoubleAdvance(LastMove(st))
    /\ LastMove(st).piece.color = opposite(st.current_player)
    /\ PassedSquare(LastMove(st)) = t

\* C4: an en-passant capture onto t is among the legal moves (asked for
\* either colour) only in the position produced directly by a two-square
\* pawn advance over t, which for a capture by the side to move is the
\* opponent's advance; a position holds an en-passant target only directly
\* after such an advance, any other executed move clearing it.
C4_EnPassantWindow ==
    /\ \A color \in {WHITE, BLACK} :
          \A m \in Range(get_legal_moves(state, color).ret) :
              m.is_en_passant
                => /\ state.move_history # <<>>
                   /\ IsDoubleAdvance(LastMove(state))
                   /\ PassedSquare(LastMove(state)) = m.to_square
    /\ \A m \in Range(LegalMoves(state)) :
          m.is_en_passant => JustAdvancedOver(state, m.to_square)
    /\ state.en_passant_target # NoSquare
          => JustAdvancedOver(state, state.en_passant_target)
    /\ (state.move_history # <<>> /\ ~IsDoubleAdvance(LastMove(state)))
          => state.en_passant_target = NoSquare

\* White's e5 pawn has black pawns on both sides, each arrived by a
\* two-square advance: the one just made (f7-f5) may be captured en passant,
\* the earlier one (d7-d5) no longer.
C4_Witness ==
    /\ Len(state.move_history) = 6
    /\ IsDoubleAdvance(state.move_history[4])
    /\ PassedSquare(state.move_history[4]) = Square(3, 5)
    /\ get_piece(state.board, Square(3, 4)) = Piece(PAWN, BLACK)
    /\ get_piece(state.board, Square(4, 4)) = Piece(PAWN, WHITE)
    /\ \E m \in Range(LegalMoves(state)) :
          m.is_en_passant /\ m.to_square = Square(5, 5)
    /\ ~\E m \in Range(LegalMoves(state)) : m.to_square = Square(3, 5)

HomeRank(color) == IF color = WHITE THEN 0 ELSE 7

Held(rights, color, side) ==
    IF color = WHITE
    THEN IF side = "kingside" THEN rights.white_kingside
                              ELSE rights.white_queenside
    ELSE IF side = "kingside" THEN rights.black_kingside
                              ELSE rights.black_queenside

\* King and both rooks of the colour on their home squares, every square
\* between them empty, both rights held.
CastlingSetUp(st, color) ==
    LET rank == HomeRank(color)
    IN  /\ get_piece(st.board, Square(4, rank)) = Piece(KING, color)
        /\ get_piece(st.board, Square(0, rank)) = Piece(ROOK, color)
        /\ get_piece(st.board, Square(7, rank)) = Piece(ROOK, color)
        /\ \A f \in {1, 2, 3, 5, 6} :
              get_piece(st.board, Square(f, rank)) = NoPiece
        /\ Held(st.castling_rights, color, "kingside")
        /\ Held(st.castling_rights, color, "queenside")

CastlingAmong(moves) == SelectSeq(moves, LAMBDA m : m.is_castling)

\* The king is in check, or the square it passes through or the square it
\* lands on is attacked by the opponent.
CastlingBarred(st, move) ==
    LET color == move.piece.color
        through == Square((move.from_square.file + move.to_square.file) \div 2,
                          move.from_square.rank)
    IN  \/ is_check(st.board, color)
        \/ is_square_attacked(st.board, through, opposite(color))
        \/ is_square_attacked(st.board, move.to_square, opposite(color))

\* C5: with king and both rooks at home, the squares between empty and both
\* rights held, exactly two castling moves are generated for the colour; a
\* generated castling move is not among the legal moves when the king is in
\* check or its passing or landing square is attacked.
C5_CastlingGating ==
    /\ \A color \in {WHITE, BLACK} :
          CastlingSetUp(state, color)
            => Len(CastlingAmong(generate_pseudo_legal_moves(state, color))) = 2
    /\ \A m \in Range(CastlingAmong(PseudoLegalMoves(state))) :
          CastlingBarred(state, m) => m \notin Range(LegalMoves(state))

\* White is set up to castle on both sides and both castling moves are
\* generated; the kingside one passes over f1, which the bishop on a6
\* attacks, and only the queenside one is legal.
C5_Witness ==
    /\ state.current_player = WHITE
    /\ CastlingSetUp(state, WHITE)
    /\ Len(CastlingAmong(PseudoLegalMoves(state))) = 2
    /\ is_square_attacked(state.board, Square(5, 0), BLACK)
    /\ ~InCheck(state)
    /\ Len(CastlingAmong(LegalMoves(state))) = 1

\* Nf3, Nf6, Ng1, Ng8 as (from file, from rank, to file, to rank).
KnightShuffle ==
    <<<<6, 0, 5, 2>>, <<6, 7, 5, 5>>, <<5, 2, 6, 0>>, <<5, 5, 6, 7>>>>

Occurrences(st) ==
    Cardinality({i \in 1..Len(st.position_history) :
                    st.position_history[i] = compute_position_hash(st)})

\* C6: is_threefold_repetition is true exactly when the hash of the current
\* position occurs at least three times in position_history; after Nf3,
\* Nf6, Ng1, Ng8 from the initial position it is false, after the same four
\* moves once more it is true.
C6_ThreefoldRepetition ==
    /\ is_threefold_repetition(state) <=> Occurrences(state) >= 3
    /\ Played(state) = KnightShuffle => ~is_threefold_repetition(state)
    /\ Played(state) = KnightShuffle \o KnightShuffle
          => is_threefold_repetition(state)

\* The knights have gone out and back twice and the repetition is reported.
C6_Witness ==
    /\ Played(state) = KnightShuffle \o KnightShuffle
    /\ Occurrences(state) = 3
    /\ is_threefold_repetition(state)

\* Equal board, side to move, castling rights and en-passant target.
SameFourFields(a, b) ==
    /\ a.board = b.board
    /\ a.current_player = b.current_player
    /\ a.castling_rights = b.castling_rights
    /\ a.en_passant_target = b.en_passant_target

\* Positions that agree with st in the four fields and differ from it in
\* move history, hash history, clocks or game mode.
Variants(st) ==
    { [st EXCEPT !.move_history = <<>>],
      [st EXCEPT !.position_history = <<>>],
      [st EXCEPT !.halfmove_clock = @ + 1],
      [st EXCEPT !.fullmove_number = @ + 1],
      [st EXCEPT !.game_mode = SINGLE_PLAYER],
      [st EXCEPT !.move_history = <<>>, !.position_history = <<>>,
                 !.halfmove_clock = 0, !.fullmove_number = 1,
                 !.game_mode = SINGLE_PLAYER] }

\* C7: positions equal in board, side to move, castling rights and
\* en-passant target have equal hashes, whatever their move history, hash
\* history, clocks and game mode; in particular a position that has come
\* back to the four fields of the initial position hashes as the initial
\* position did.
C7_HashOfFourFields ==
    /\ \A v \in Variants(state) :
          SameFourFields(v, state)
          /\ compute_position_hash(v) = compute_position_hash(state)
    /\ SameFourFields(state, new_game(SINGLE_PLAYER))
          => compute_position_hash(state)
                = compute_position_hash(new_game(SINGLE_PLAYER))

\* The knights have gone out and back: the four fields are those of the
\* initial position, while history and clocks are not.
C7_Witness ==
    /\ SameFourFields(state, new_game(SINGLE_PLAYER))
    /\ Len(state.move_history) = 4
    /\ state.halfmove_clock = 4
    /\ state.fullmove_number = 3
    /\ state.game_mode # SINGLE_PLAYER

\* C8: no engine operation changes the state it is given: after
\* execute_move, is_legal_move, get_legal_moves, a game-end predicate or
\* get_algebraic_notation has run on a state, the board, side to move,
\* castling rights, en-passant target, clocks, move history and hash history
\* of that state are what they were before the call.
C8_ArgumentUnchanged == [][arg' = state]_vars

\* get_algebraic_notation has executed the mating queen move on a copy,
\* asked for check, checkmate and disambiguation, and the state it was
\* given is the one the caller still holds, with the mate yet to be played.
C8_Witness ==
    /\ last_op = "get_algebraic_notation"
    /\ last_result = "Qh4#"
    /\ arg = state
    /\ Len(state.move_history) = 3
    /\ state.current_player = BLACK

Kings(board, color) ==
    {sq \in Range(AllSquares) : get_piece(board, sq) = Piece(KING, color)}

\* C9: every position reached by executing legal moves from the initial
\* position has exactly one white king and exactly one black king on the
\* board.
C9_OneKingEach ==
    /\ Cardinality(Kings(state.board, WHITE)) = 1
    /\ Cardinality(Kings(state.board, BLACK)) = 1

\* A king has castled and pieces have been captured, and there still is one
\* king of each colour.
C9_Witness ==
    /\ \E m \in Range(state.move_history) : m.is_castling
    /\ \E m \in Range(state.move_history) : m.captured_piece # NoPiece
    /\ Cardinality(Kings(state.board, WHITE)) = 1
    /\ Cardinality(Kings(state.board, BLACK)) = 1

RightNames ==
    {"white_kingside", "white_queenside", "black_kingside", "black_queenside"}

RightOwner(right) ==
    IF right \in {"white_kingside", "white_queenside"} THEN WHITE ELSE BLACK

RightCorner(right) ==
    Square(IF right \in {"white_kingside", "black_kingside"} THEN 7 ELSE 0,
           HomeRank(RightOwner(right)))

IsKingMove(move) == move.piece.piece_type = KING

IsRookMoveFromOwnCorner(move) ==
    /\ move.piece.piece_type = ROOK
    /\ \E right \in RightNames :
          RightOwner(right) = move.piece.color
          /\ RightCorner(right) = move.from_square

\* The rights a king move or a rook move from its own corner clears.
ClearedByMover(move) ==
    {right \in RightNames :
        /\ RightOwner(right) = move.piece.color
        /\ \/ IsKingMove(move)
           \/ move.piece.piece_type = ROOK
              /\ RightCorner(right) = move.from_square}

\* The right of the home corner on which the move captures a rook.
ClearedByCapture(move) ==
    {right \in RightNames :
        /\ move.captured_piece # NoPiece
        /\ move.captured_piece.piece_type = ROOK
        /\ RightCorner(right) = move.to_square}

RightsLess(rights, cleared) ==
    [right \in RightNames |-> rights[right] /\ right \notin cleared]

\* C10 as stated: a king move clears both rights of the mover and a rook
\* move from its own home corner the right of that corner, and every other
\* right keeps its pre-move value.
C10_OnlyMoverRightsCleared ==
    [][LET move == LastMove(state')
       IN  (IsKingMove(move) \/ IsRookMoveFromOwnCorner(move))
             => \A right \in RightNames :
                   state'.castling_rights[right]
                     = RightsLess(state.castling_rights,
                                  ClearedByMover(move))[right]]_vars

\* C10: a king move clears both rights of the mover's colour, a rook move
\* from its own home corner clears the right of that corner, a move that
\* captures a rook on a home corner clears the right of that corner, and
\* every castling right not so named keeps its pre-move value; the decision
\* is taken from the pre-move origin square, the mover's colour and the
\* captured piece.
C10_RightsAfterMove ==
    [][LET move == LastMove(state')
       IN  \A right \in RightNames :
              state'.castling_rights[right]
                = RightsLess(state.castling_rights,
                             ClearedByMover(move)
                               \cup ClearedByCapture(move))[right]]_vars

\* The a1 rook has just captured the rook on a8: the queenside right of
\* both colours is gone, the kingside rights are held.
C10_Witness ==
    /\ state.move_history # <<>>
    /\ IsRookMoveFromOwnCorner(LastMove(state))
    /\ LastMove(state).from_square = Square(0, 0)
    /\ LastMove(state).to_square = Square(0, 7)
    /\ LastMove(state).captured_piece = Piece(ROOK, BLACK)
    /\ state.castling_rights = CastlingRights(TRUE, FALSE, TRUE, FALSE)

CornerRight(square) ==
    {right \in RightNames : RightCorner(right) = square}

CapturesRookOnCorner(move) ==
    /\ move.captured_piece # NoPiece
    /\ move.captured_piece.piece_type = ROOK
    /\ CornerRight(move.to_square) # {}

\* C11: a move that captures a rook on a1, h1, a8 or h8 clears the castling
\* right of that corner, also when the captured rook never moved, and leaves
\* the other rights of the captured rook's colour as they were; a move that
\* captures a rook elsewhere, or another piece on a corner, leaves every
\* right as the moving piece alone leaves it.
C11_RookCaptureRevokes ==
    [][LET move == LastMove(state')
       IN  /\ CapturesRookOnCorner(move)
                => /\ \A right \in CornerRight(move.to_square) :
                         ~state'.castling_rights[right]
                   /\ \A right \in RightNames \ CornerRight(move.to_square) :
                         RightOwner(right) = move.captured_piece.color
                           => state'.castling_rights[right]
                                = state.castling_rights[right]
           /\ (move.captured_piece # NoPiece /\ ~CapturesRookOnCorner(move))
                => \A right \in RightNames :
                      state'.castling_rights[right]
                        = RightsLess(state.castling_rights,
                                     ClearedByMover(move))[right]]_vars

\* A bishop has just captured the a8 rook, which had never moved: Black's
\* queenside right is gone, its kingside right and both of White's are held.
C11_Witness ==
    /\ state.move_history # <<>>
    /\ LastMove(state).piece = Piece(BISHOP, WHITE)
    /\ LastMove(state).captured_piece = Piece(ROOK, BLACK)
    /\ LastMove(state).to_square = Square(0, 7)
    /\ \A i \in 1..(Len(state.move_history) - 1) :
          /\ state.move_history[i].from_square # Square(0, 7)
          /\ state.move_history[i].to_square # Square(0, 7)
    /\ state.castling_rights = CastlingRights(TRUE, TRUE, TRUE, FALSE)

\* The move, made in position st, moves a pawn or captures: its destination
\* holds a piece in st, or it is an en-passant capture.
MovesPawnOrCaptures(st, move) ==
    \/ get_piece(st.board, move.from_square).piece_type = PAWN
    \/ get_piece(st.board, move.to_square) # NoPiece
    \/ move.is_en_passant

\* The plies of the move history after its last pawn move or capture.
PliesSinceProgress(st) ==
    LET progress == {i \in 1..Len(st.move_history) :
                        \/ st.move_history[i].piece.piece_type = PAWN
                        \/ st.move_history[i].captured_piece # NoPiece}
    IN  Cardinality({i \in 1..Len(st.move_history) :
                        \A j \in progress : j < i})

\* C12: execute_move sets the halfmove clock to 0 when the move is a pawn
\* move or a capture (en passant included) and to the previous value plus
\* one otherwise; in every position played from the initial one the clock is
\* the number of plies executed since the last pawn move or capture.
C12_HalfmoveClock ==
    /\ [](state.halfmove_clock = PliesSinceProgress(state))
    /\ [][state'.halfmove_clock
            = IF MovesPawnOrCaptures(state, LastMove(state'))
              THEN 0
              ELSE state.halfmove_clock + 1]_vars

\* Six plies, the castling of both sides among them, have been played since
\* the last pawn move, captures and pawn moves having reset the clock before.
C12_Witness ==
    /\ state.halfmove_clock = 6
    /\ Len(state.move_history) = 16
    /\ LastMove(state).is_castling
    /\ state.move_history[10].piece.piece_type = PAWN

\* The moves of the move history made by a piece of the colour.
MovesBy(st, color) ==
    {i \in 1..Len(st.move_history) : st.move_history[i].piece.color = color}

\* C13: execute_move increments the fullmove number by one exactly when
\* Black was to move in the position it was given and leaves it unchanged
\* when White was; in every position played from the initial one the
\* fullmove number is 1 plus the number of Black moves executed.
C13_FullmoveNumber ==
    /\ [](state.fullmove_number = 1 + Cardinality(MovesBy(state, BLACK)))
    /\ [][state'.fullmove_number
            = IF state.current_player = BLACK
              THEN state.fullmove_number + 1
              ELSE state.fullmove_number]_vars

\* White has made three moves and Black two: the third move is under way.
C13_Witness ==
    /\ Len(state.move_history) = 5
    /\ Cardinality(MovesBy(state, WHITE)) = 3
    /\ Cardinality(MovesBy(state, BLACK)) = 2
    /\ state.current_player = BLACK
    /\ state.fullmove_number = 3

\* C14: each execute_move appends the executed move at the end of the move
\* history, the earlier entries kept in order, and appends exactly one entry,
\* the hash of the resulting position, to the hash history; so in every
\* position reached from a new game the hash history has one entry more than
\* the move history and its last entry is the hash of the current position.
C14_HistoriesAppended ==
    /\ [](/\ Len(state.position_history) = Len(state.move_history) + 1
          /\ state.position_history[Len(state.position_history)]
                = compute_position_hash(state))
    /\ [][/\ Len(state'.move_history) = Len(state.move_history) + 1
          /\ SubSeq(state'.move_history, 1, Len(state.move_history))
                = state.move_history
          /\ LastMove(state') \in Range(PseudoLegalMoves(state))
          /\ state'.board = ExecutedBoard(state, LastMove(state'))
          /\ state'.position_history
                = Append(state.position_history,
                         compute_position_hash(state'))]_vars

\* Eight moves are recorded in the order played and nine hashes, the hash
\* of the current position last and, the position having come back twice,
\* first and fifth as well.
C14_Witness ==
    /\ Played(state) = KnightShuffle \o KnightShuffle
    /\ Len(state.position_history) = 9
    /\ state.position_history[9] = compute_position_hash(state)
    /\ state.position_history[1] = state.position_history[9]
    /\ state.position_history[5] = state.position_history[9]
    /\ state.position_history[2] # state.position_history[9]

\* C15: each execute_move makes the side to move the opposite colour of the
\* side to move of the position it was given, so in any play from the
\* initial position White is to move exactly when the move history has even
\* length.
C15_SideToMoveAlternates ==
    /\ [](state.current_player = WHITE <=> Len(state.move_history) % 2 = 0)
    /\ [][state'.current_player = opposite(state.current_player)]_vars

\* White has castled on its fourth move: seven plies are recorded and Black
\* is to move.
C15_Witness ==
    /\ Len(state.move_history) = 7
    /\ LastMove(state).is_castling
    /\ LastMove(state).piece.color = WHITE
    /\ state.current_player = BLACK

\* The board after the colour has castled on the side ("kingside" or
\* "queenside") on board: king from the e-file two files toward the rook,
\* rook from its home file to the file the king crossed.
Castled(board, color, side) ==
    LET rank == HomeRank(color)
        king_to == IF side = "kingside" THEN 6 ELSE 2
        rook_from == IF side = "kingside" THEN 7 ELSE 0
        rook_to == IF side = "kingside" THEN 5 ELSE 3
    IN  [r \in 1..8 |-> [f \in 1..8 |->
            IF r - 1 # rank THEN board[r][f]
            ELSE IF f - 1 = 4 \/ f - 1 = rook_from THEN NoPiece
            ELSE IF f - 1 = king_to THEN Piece(KING, color)
            ELSE IF f - 1 = rook_to THEN Piece(ROOK, color)
            ELSE board[r][f]]]

\* C16: executing a castling move empties the king's origin square, puts
\* the king on its destination two files toward the rook and moves the rook
\* of the same rank from its home file to the file the king crossed
\* (kingside h to f, queenside a to d), leaving the rook's home square empty
\* and every other square unchanged.
C16_CastlingOnBoard ==
    [][LET move == LastMove(state')
           color == state.current_player
       IN  move.is_castling
             => /\ move.from_square = Square(4, HomeRank(color))
                /\ move.to_square \in {Square(6, HomeRank(color)),
                                       Square(2, HomeRank(color))}
                /\ state'.board
                     = Castled(state.board, color,
                               IF move.to_square.file = 6
                               THEN "kingside" ELSE "queenside")]_vars

\* Black has just castled queenside, White having done so before: king on
\* c8, rook on d8, a8, b8 and e8 empty, and White's king and rook still on
\* c1 and d1.
C16_Witness ==
    /\ state.move_history # <<>>
    /\ LastMove(state).is_castling
    /\ LastMove(state).to_square = Square(2, 7)
    /\ get_piece(state.board, Square(2, 7)) = Piece(KING, BLACK)
    /\ get_piece(state.board, Square(3, 7)) = Piece(ROOK, BLACK)
    /\ \A f \in {0, 1, 4} : get_piece(state.board, Square(f, 7)) = NoPiece
    /\ get_piece(state.board, Square(2, 0)) = Piece(KING, WHITE)
    /\ get_piece(state.board, Square(3, 0)) = Piece(ROOK, WHITE)

\* The square of the pawn an en-passant move captures: destination file,
\* origin rank.
CapturedPawnSquare(move) ==
    Square(move.to_square.file, move.from_square.rank)

\* C17: executing an en-passant move puts the capturing pawn on the
\* destination square, empties its origin square and removes the pawn
\* standing on (destination file, origin rank); no other square changes.
C17_EnPassantOnBoard ==
    [][LET move == LastMove(state')
           color == state.current_player
       IN  move.is_en_passant
             => /\ get_piece(state.board, move.from_square) = Piece(PAWN, color)
                /\ get_piece(state.board, CapturedPawnSquare(move))
                     = Piece(PAWN, opposite(color))
                /\ get_piece(state.board, move.to_square) = NoPiece
                /\ \A sq \in Range(AllSquares) :
                      get_piece(state'.board, sq)
                        = IF sq = move.to_square THEN Piece(PAWN, color)
                          ELSE IF sq = move.from_square
                                  \/ sq = CapturedPawnSquare(move)
                          THEN NoPiece
                          ELSE get_piece(state.board, sq)]_vars

\* Black's e4 pawn has just captured the d4 pawn en passant: it stands on
\* d3, and e4 and d4 are empty.
C17_Witness ==
    /\ state.move_history # <<>>
    /\ LastMove(state).is_en_passant
    /\ LastMove(state).piece = Piece(PAWN, BLACK)
    /\ get_piece(state.board, Square(3, 2)) = Piece(PAWN, BLACK)
    /\ get_piece(state.board, Square(4, 3)) = NoPiece
    /\ get_piece(state.board, Square(3, 3)) = NoPiece

\* C18: after execute_move the en-passant target is set exactly when the
\* moved piece is a pawn that advanced two ranks, and is then the square
\* between its origin and destination on the same file; after every other
\* move the target is none, whatever it was before.
C18_EnPassantTargetAfterMove ==
    [][LET move == LastMove(state')
           two_ranks ==
               /\ get_piece(state.board, move.from_square).piece_type = PAWN
               /\ move.to_square.file = move.from_square.file
               /\ Abs(move.to_square.rank - move.from_square.rank) = 2
       IN  /\ state'.en_passant_target # NoSquare <=> two_ranks
           /\ two_ranks
                => /\ state'.en_passant_target.file = move.from_square.file
                   /\ 2 * state'.en_passant_target.rank
                        = move.from_square.rank + move.to_square.rank]_vars

\* A pawn has just advanced one rank, directly after a two-rank advance of
\* the other side had set a target: the target is none again.
C18_Witness ==
    /\ Len(state.move_history) >= 2
    /\ IsDoubleAdvance(state.move_history[Len(state.move_history) - 1])
    /\ LastMove(state).piece.piece_type = PAWN
    /\ Abs(LastMove(state).to_square.rank - LastMove(state).from_square.rank) = 1
    /\ LastMove(state).captured_piece = NoPiece
    /\ state.en_passant_target = NoSquare

\* C19: every en-passant move the move generator produces for a reached
\* position, for either colour, captures an enemy pawn standing on
\* (destination file, mover's origin rank), and that pawn is the move's
\* recorded captured piece.
C19_EnPassantCapturesEnemyPawn ==
    \A color \in {WHITE, BLACK} :
        \A m \in Range(generate_pseudo_legal_moves(state, color)) :
            m.is_en_passant
              => /\ get_piece(state.board, CapturedPawnSquare(m))
                      = Piece(PAWN, opposite(color))
                 /\ m.captured_piece
                      = get_piece(state.board, CapturedPawnSquare(m))

\* The colours without a king on the board.
Kingless(st) == {color \in {WHITE, BLACK} : Kings(st.board, color) = {}}

\* C20 as stated: on a position in which a colour's king is missing,
\* is_check answers false and get_legal_moves answers with no move for that
\* colour.
C20_MissingKingNoMoves ==
    \A color \in Kingless(state) :
        /\ is_check(state.board, color) = FALSE
        /\ get_legal_moves(state, color).ret = <<>>

\* C20: on a position in which a colour's king is missing, is_check answers
\* false for that colour and get_legal_moves answers with every pseudo-legal
\* move of the colour's remaining pieces, in the generator's order; the list
\* is empty only when the generator's is.
C20_MissingKingAllMovesLegal ==
    \A color \in Kingless(state) :
        /\ is_check(state.board, color) = FALSE
        /\ get_legal_moves(state, color).ret
              = generate_pseudo_legal_moves(state, color)

\* White's king has been taken off the board in a position where the black
\* queen on h4 would give check on e1; asked for White's moves, the engine
\* has answered with all the moves the generator gives for the other pieces.
C20_Witness ==
    /\ Kingless(state) = {WHITE}
    /\ state.current_player = WHITE
    /\ last_op = "get_legal_moves"
    /\ get_piece(state.board, Square(7, 3)) = Piece(QUEEN, BLACK)
    /\ last_result # <<>>
    /\ last_result = generate_pseudo_legal_moves(state, WHITE)
    /\ ~is_check(state.board, WHITE)

\* An executed ply: the step's new position has one more move in its history
\* than the position the controller held.
ExecutesMove ==
    /\ state # NoGame
    /\ state' # NoGame
    /\ Len(state'.move_history) = Len(state.move_history) + 1

\* C21: a promotion to a piece type outside {queen, rook, bishop, knight} is
\* always rejected: handle_promotion_choice given such a type raises and
\* leaves the position and the pending promotion as they were, and
\* execute_move given a move with such a promotion type puts no king and no
\* pawn on the move's destination.
C21_OutsidePromotionRejected ==
    [][ /\ (/\ last_op' = "handle_promotion_choice"
            /\ arg'.piece_type \notin Range(PromotionTypes))
           => /\ last_result'.action = "ValueError"
              /\ state' = state
              /\ pending_promotion_move' = pending_promotion_move
        /\ (/\ last_op' = "execute_move"
            /\ arg'.promotion_piece \notin Range(PromotionTypes))
           => /\ get_piece(last_result'.board, arg'.to_square).piece_type
                    \notin {KING, PAWN}
              /\ state' = state
              /\ pending_promotion_move' = pending_promotion_move ]_vars

\* C22: every move the controller hands to execute_move, whichever operation
\* does so and in whatever order the operations are called, is one of the
\* legal moves of the side to move in the position the controller holds at
\* that moment.
C22_ExecutedMovesLegal ==
    [][ (last_op' # "start_new_game" /\ ExecutesMove)
           => LastMove(state')
                 \in Range(get_legal_moves(state, state.current_player).ret) ]_vars

\* The squares holding the colour's pieces other than its king.
Others(board, color) ==
    { sq \in Range(AllSquares) :
        /\ get_piece(board, sq).color = color
        /\ get_piece(board, sq).piece_type # KING }

Parity(square) == (square.file + square.rank) % 2

\* The squares are one square, and it holds a bishop or a knight.
LoneMinor(board, squares) ==
    /\ Cardinality(squares) = 1
    /\ \A sq \in squares : get_piece(board, sq).piece_type \in {BISHOP, KNIGHT}

\* One of the material combinations listed as insufficient.
ListedAsInsufficient(board) ==
    \E white \in {Others(board, WHITE)}, black \in {Others(board, BLACK)} :
        \/ white = {} /\ black = {}
        \/ LoneMinor(board, white) /\ black = {}
        \/ white = {} /\ LoneMinor(board, black)
        \/ /\ Cardinality(white) = 1
           /\ Cardinality(black) = 1
           /\ \A w \in white, b \in black :
                 /\ get_piece(board, w).piece_type = BISHOP
                 /\ get_piece(board, b).piece_type = BISHOP
                 /\ Parity(w) = Parity(b)

\* C23: is_insufficient_material answers true exactly for king against
\* king, king and one bishop or one knight against a lone king (either
\* side), and king and bishop against king and bishop with the two bishops
\* on squares of the same parity of file + rank; for every other material
\* (any pawn, rook or queen, two minor pieces on one side, bishops on squares
\* of opposite parity, knight against knight or bishop) it answers false.
C23_InsufficientMaterial ==
    last_op = "is_insufficient_material"
       => last_result = ListedAsInsufficient(state.board)

\* White's bishop on c3 and Black's on f6 stand on squares of the same
\* parity, nothing else but the kings is on the board, and the answer was
\* true.
C23_Witness ==
    /\ last_op = "is_insufficient_material"
    /\ last_result = TRUE
    /\ Others(state.board, WHITE) = {Square(2, 2)}
    /\ Others(state.board, BLACK) = {Square(5, 5)}
    /\ get_piece(state.board, Square(2, 2)) = Piece(BISHOP, WHITE)
    /\ get_piece(state.board, Square(5, 5)) = Piece(BISHOP, BLACK)

\* The piece type that starts on a file of the back rank: rooks on a and h,
\* knights on b and g, bishops on c and f, the queen on d, the king on e.
BackRankType(file) ==
    CASE file \in {0, 7} -> ROOK
      [] file \in {1, 6} -> KNIGHT
      [] file \in {2, 5} -> BISHOP
      [] file = 3 -> QUEEN
      [] file = 4 -> KING

\* What stands on a square in the standard setup.
StandardPiece(square) ==
    CASE square.rank = 0 -> Piece(BackRankType(square.file), WHITE)
      [] square.rank = 1 -> Piece(PAWN, WHITE)
      [] square.rank = 6 -> Piece(PAWN, BLACK)
      [] square.rank = 7 -> Piece(BackRankType(square.file), BLACK)
      [] OTHER -> NoPiece

\* C24: the position initialize_game returns has the standard setup, White
\* to move, all four castling rights, no en-passant target, halfmove clock 0,
\* fullmove number 1, an empty move history and a hash history holding
\* exactly the hash of this position; get_legal_moves for White answers
\* with exactly 20 different moves, 16 of pawns and 4 of knights.
C24_InitialPosition ==
    last_op = "initialize_game"
       => /\ \A sq \in Range(AllSquares) :
                get_piece(state.board, sq) = StandardPiece(sq)
          /\ state.current_player = WHITE
          /\ state.castling_rights = CastlingRights(TRUE, TRUE, TRUE, TRUE)
          /\ state.en_passant_target = NoSquare
          /\ state.halfmove_clock = 0
          /\ state.fullmove_number = 1
          /\ state.move_history = <<>>
          /\ state.position_history = <<compute_position_hash(state)>>
          /\ \E legal_moves \in {get_legal_moves(state, WHITE).ret} :
                /\ Len(legal_moves) = 20
                /\ Cardinality(Range(legal_moves)) = 20
                /\ Cardinality({ m \in Range(legal_moves) :
                                   m.piece = Piece(PAWN, WHITE) }) = 16
                /\ Cardinality({ m \in Range(legal_moves) :
                                   m.piece = Piece(KNIGHT, WHITE) }) = 4

\* The position that initialize_game has just returned: nothing has been
\* played and the white king stands on e1.
C24_Witness ==
    /\ last_op = "initialize_game"
    /\ Len(state.move_history) = 0
    /\ get_piece(state.board, Square(4, 0)) = Piece(KING, WHITE)
    /\ Len(get_legal_moves(state, WHITE).ret) = 20

\* The rank a pawn of the colour promotes on.
LastRank(color) == IF color = WHITE THEN 7 ELSE 0

\* The moves of the list that go from and to the same squares as the move.
SameSquares(moves, move) ==
    { i \in 1..Len(moves) :
        /\ moves[i].from_square = move.from_square
        /\ moves[i].to_square = move.to_square }

\* C25: among the moves generated for either colour, every pawn move onto
\* the last rank, a push or a capture, carries a promotion type and comes
\* as exactly four moves that are equal but for the promotion type, one for
\* each of queen, rook, bishop and knight; a pawn move to any other rank
\* carries no promotion type.
C25_PromotionMoves ==
    \A color \in {WHITE, BLACK} :
        \E moves \in {generate_pseudo_legal_moves(state, color)} :
            \A move \in { m \in Range(moves) : m.piece.piece_type = PAWN } :
                IF move.to_square.rank = LastRank(color)
                THEN /\ move.promotion_piece \in {QUEEN, ROOK, BISHOP, KNIGHT}
                     /\ Cardinality(SameSquares(moves, move)) = 4
                     /\ { moves[i].promotion_piece : i \in SameSquares(moves, move) }
                           = {QUEEN, ROOK, BISHOP, KNIGHT}
                     /\ \A i \in SameSquares(moves, move) :
                           [moves[i] EXCEPT !.promotion_piece = move.promotion_piece]
                              = move
                ELSE move.promotion_piece = NoPromotion

\* Black's pawn on g2 may push to g1 and may capture on f1 and on h1: the
\* moves generated for Black hold promotions by push and by capture, next
\* to pawn moves that stay short of the last rank.
C25_Witness ==
    /\ state.current_player = BLACK
    /\ get_piece(state.board, Square(6, 1)) = Piece(PAWN, BLACK)
    /\ \E moves \in {Range(generate_pseudo_legal_moves(state, BLACK))} :
          /\ \E m \in moves : /\ m.piece.piece_type = PAWN
                              /\ m.to_square = Square(6, 0)
                              /\ m.captured_piece = NoPiece
                              /\ m.promotion_piece = KNIGHT
          /\ \E m \in moves : /\ m.piece.piece_type = PAWN
                              /\ m.to_square = Square(7, 0)
                              /\ m.captured_piece = Piece(ROOK, WHITE)
                              /\ m.promotion_piece = ROOK
          /\ \E m \in moves : /\ m.piece.piece_type = PAWN
                              /\ m.to_square.rank # 0

\* <<color, hash of st with that side to move>> for both colours.
SideHashes(st) ==
    { <<color, compute_position_hash([st EXCEPT !.current_player = color])>> :
        color \in {WHITE, BLACK} }

\* <<rights, hash of st with those castling rights>> for the sixteen
\* combinations of rights.
RightsHashes(st) ==
    { <<rights, compute_position_hash([st EXCEPT !.castling_rights = rights])>> :
        rights \in { CastlingRights(wk, wq, bk, bq) :
                       wk \in BOOLEAN, wq \in BOOLEAN,
                       bk \in BOOLEAN, bq \in BOOLEAN } }

\* <<target, hash of st with that en-passant target>> for no target and for
\* each of the 64 squares.
TargetHashes(st) ==
    { <<target, compute_position_hash([st EXCEPT !.en_passant_target = target])>> :
        target \in Range(AllSquares) \cup {NoSquare} }

\* Different values of the field give different hashes, but possibly for the
\* two values excepted.
SeparatesBut(hashes, excepted) ==
    \E known \in {hashes} :
        \A p \in known, q \in known :
            (p[1] # q[1] /\ {p[1], q[1]} # excepted) => p[2] # q[2]

A1H8 ==
    { letter \o digit : letter \in {"a", "b", "c", "d", "e", "f", "g", "h"},
                        digit \in {"1", "2", "3", "4", "5", "6", "7", "8"} }

CapitalA1H8 ==
    { letter \o digit : letter \in {"A", "B", "C", "D", "E", "F", "G", "H"},
                        digit \in {"1", "2", "3", "4", "5", "6", "7", "8"} }

\* C27: for every file and rank in 0..7, from_algebraic of to_algebraic of
\* Square(file, rank) is Square(file, rank); to_algebraic of a square is one
\* of the strings a1..h8, and from_algebraic of each of these strings is a
\* square whose to_algebraic is the string again, so the two conversions are
\* a bijection between the 64 squares and the 64 strings.
C27_AlgebraicRoundTrip ==
    /\ (last_op = "from_algebraic" /\ "file" \in DOMAIN arg)
          => last_result = Square(arg.file, arg.rank)
    /\ last_op = "to_algebraic" => last_result.notation \in A1H8
    /\ (/\ last_op = "from_algebraic"
        /\ "notation" \in DOMAIN arg
        /\ arg.notation \in A1H8)
          => /\ last_result \in Range(AllSquares)
             /\ to_algebraic(last_result) = arg.notation
    /\ Cardinality(A1H8) = 64

\* Square(7, 7) has gone to "h8" and back.
C27_Witness ==
    /\ last_op = "from_algebraic"
    /\ arg = [file |-> 7, rank |-> 7]
    /\ last_result = Square(7, 7)

\* C28 as claimed: Square construction fails when either coordinate is
\* outside 0..7, and from_algebraic fails for every string that is not a
\* file letter a to h followed by a rank digit 1 to 8.
C28_MalformedRejected ==
    /\ (last_op = "Square" /\ (arg.file \notin 0..7 \/ arg.rank \notin 0..7))
          => last_result = ValueError
    /\ (/\ last_op = "from_algebraic"
        /\ "notation" \in DOMAIN arg
        /\ arg.notation \notin A1H8)
          => last_result = ValueError

\* C28: Square construction fails when either coordinate is outside 0..7,
\* and from_algebraic fails for every string that is not a file letter a to
\* h, small or capital, followed by a rank digit 1 to 8.
C28_MalformedRejectedEitherCase ==
    /\ (last_op = "Square" /\ (arg.file \notin 0..7 \/ arg.rank \notin 0..7))
          => last_result = ValueError
    /\ (/\ last_op = "from_algebraic"
        /\ "notation" \in DOMAIN arg
        /\ arg.notation \notin A1H8 \cup CapitalA1H8)
          => last_result = ValueError

\* The string "e9" has been parsed and refused.
C28_Witness ==
    /\ last_op = "from_algebraic"
    /\ "notation" \in DOMAIN arg
    /\ arg.notation = "e9"
    /\ last_result = ValueError

\* The squares, other than the move's origin, from which a piece of the
\* move's type has a legal move of the side to move to the move's
\* destination.
Rivals(st, move) ==
    { other.from_square :
        other \in { legal \in Range(LegalMoves(st)) :
                      /\ legal.from_square # move.from_square
                      /\ legal.to_square = move.to_square
                      /\ legal.piece.piece_type = move.piece.piece_type } }

Flags(file, rank) == [disambiguate_file |-> file, disambiguate_rank |-> rank]

\* C29: the disambiguation flags computed for a move are none for pawns,
\* kings and castling, and none when no other legal move of the same piece
\* type reaches the same destination from a different origin; otherwise
\* file only if no such other move starts on the mover's origin file, else
\* rank only if none starts on the mover's origin rank, else both.
C29_DisambiguationFlags ==
    last_op = "_get_disambiguation"
       => \E rivals \in {Rivals(state, arg.move)} :
             last_result =
                IF \/ arg.move.piece.piece_type \in {PAWN, KING}
                   \/ arg.move.is_castling
                   \/ rivals = {}
                THEN Flags(FALSE, FALSE)
                ELSE IF \A square \in rivals :
                           square.file # arg.move.from_square.file
                THEN Flags(TRUE, FALSE)
                ELSE IF \A square \in rivals :
                           square.rank # arg.move.from_square.rank
                THEN Flags(FALSE, TRUE)
                ELSE Flags(TRUE, TRUE)

\* The flags of Nb1-c3 with further knights on b5 and d1 are both set.
C29_Witness ==
    /\ last_op = "_get_disambiguation"
    /\ arg.move.piece.piece_type = KNIGHT
    /\ arg.move.from_square = Square(1, 0)
    /\ arg.move.to_square = Square(2, 2)
    /\ get_piece(state.board, Square(1, 4)) = Piece(KNIGHT, WHITE)
    /\ get_piece(state.board, Square(3, 0)) = Piece(KNIGHT, WHITE)
    /\ last_result = Flags(TRUE, TRUE)

\* The letter of a piece type, none for a pawn.
LetterOf(piece_type) ==
    CASE piece_type = PAWN -> ""
      [] piece_type = KNIGHT -> "N"
      [] piece_type = BISHOP -> "B"
      [] piece_type = ROOK -> "R"
      [] piece_type = QUEEN -> "Q"
      [] piece_type = KING -> "K"

\* C30: the rendered notation of a move is O-O or O-O-O for castling;
\* otherwise the piece letter (none for a pawn), the disambiguation
\* characters only for non-pawn non-king pieces, the origin file before 'x'
\* for a capturing pawn, 'x' when capturing or en passant, the destination
\* square, and '=<letter>' when promoting; in all cases followed by '#' if
\* the checkmate flag is set, else by '+' if the check flag is set.
C30_RenderedNotation ==
    last_op = "to_algebraic_notation"
       => \E move \in {arg.move} :
             LET captures == move.captured_piece # NoPiece \/ move.is_en_passant
                 flagged == move.piece.piece_type \notin {PAWN, KING}
                 mark == IF arg.is_checkmate THEN "#"
                         ELSE IF arg.is_check THEN "+" ELSE ""
             IN  last_result.notation =
                    IF move.is_castling
                    THEN (IF move.to_square.file > move.from_square.file
                          THEN "O-O" ELSE "O-O-O") \o mark
                    ELSE LetterOf(move.piece.piece_type)
                         \o (IF flagged /\ arg.disambiguate_file
                             THEN FileLetter(move.from_square.file) ELSE "")
                         \o (IF flagged /\ arg.disambiguate_rank
                             THEN RankDigit(move.from_square.rank) ELSE "")
                         \o (IF move.piece.piece_type = PAWN /\ captures
                             THEN FileLetter(move.from_square.file) ELSE "")
                         \o (IF captures THEN "x" ELSE "")
                         \o to_algebraic(move.to_square)
                         \o (IF move.promotion_piece # NoPromotion
                             THEN "=" \o LetterOf(move.promotion_piece)
                             ELSE "")
                         \o mark

\* C31: handle_move_attempt(from, to) for which no legal move of the side to
\* move goes from `from` to `to` returns invalid_move, leaves the game state
\* unchanged and clears the selected square.
C31_InvalidMoveAttempt ==
    [][ (/\ last_op' = "handle_move_attempt"
         /\ state # NoGame
         /\ \A move \in Range(LegalMoves(state)) :
               ~(/\ move.from_square = arg'.from_square
                 /\ move.to_square = arg'.to_square))
           => /\ last_result'.action = "invalid_move"
              /\ state' = state
              /\ selected_square' = NoSquare ]_vars

\* In a new game an attempt to move the pawn on f2 to a4 has been answered
\* with invalid_move.
C31_Witness ==
    /\ last_op = "handle_move_attempt"
    /\ state # NoGame
    /\ state.move_history = <<>>
    /\ arg = [from_square |-> Square(5, 1), to_square |-> Square(0, 3)]
    /\ last_result.action = "invalid_move"
    /\ selected_square = NoSquare

\* C32: generate_ai_move executes a move only when the game is in
\* single-player mode and Black is to move; in multiplayer mode, on White's
\* turn, or with no game started it returns None and leaves the game state
\* unchanged.
C32_AIMoveOnlyForBlackInSinglePlayer ==
    [][ last_op' = "generate_ai_move"
           => /\ ExecutesMove
                    => /\ state.game_mode = SINGLE_PLAYER
                       /\ state.current_player = BLACK
              /\ (\/ state = NoGame
                  \/ state.game_mode # SINGLE_PLAYER
                  \/ state.current_player # BLACK)
                    => /\ last_result' = Answer("none", NoMove, "none")
                       /\ state' = state ]_vars

\* In a single-player game generate_ai_move has executed a move of Black.
C32_Witness ==
    /\ last_op = "generate_ai_move"
    /\ last_result.action = "move_executed"
    /\ last_result.move.piece.color = BLACK
    /\ state.game_mode = SINGLE_PLAYER
    /\ state.current_player = WHITE
    /\ state.move_history # <<>>

\* C33: select_move returns None exactly when the side to move has no legal
\* move, and otherwise returns a member of the legal moves of the side to
\* move, also when the time limit is exceeded before any move or before all
\* moves are scored.
C33_SelectMoveLegal ==
    last_op = "select_move"
       => \E legal_moves \in {LegalMoves(state)} :
             /\ last_result.move = NoMove <=> legal_moves = <<>>
             /\ last_result.move # NoMove
                   => last_result.move \in Range(legal_moves)

\* The time limit was exceeded before any move was scored, in a position
\* with legal moves and without a mate in one: a move has been returned.
C33_Witness ==
    /\ last_op = "select_move"
    /\ arg.evaluated = 0
    /\ state = WhiteFeaturesPosition
    /\ last_result.move # NoMove

\* C34: for every position and every pseudo-legal move generated for it, for
\* either colour, the board built by the validator's simulation is the
\* board of the position execute_move returns, square for square, and so
\* the validator's answer whether the move leaves the mover in check is the
\* answer for the executed position.
C34_SimulationMatchesExecution ==
    \A color \in {WHITE, BLACK} :
        \A move \in Range(generate_pseudo_legal_moves(state, color)) :
            \E executed \in {ExecutedBoard(state, move)} :
                /\ \A square \in Range(AllSquares) :
                      get_piece(_apply_move_temporarily(state, move).ret.board, square)
                         = get_piece(executed, square)
                /\ would_leave_in_check(state, move).ret
                      = is_check(executed, move.piece.color)

\* A position whose pseudo-legal moves hold an en-passant capture, a
\* castling move and a promotion is not reached in one game; this one holds
\* an en-passant capture of the side to move, simulated and executed with
\* the captured pawn taken off its square.
C34_Witness ==
    \E move \in Range(PseudoLegalMoves(state)) :
        /\ move.is_en_passant
        /\ move.captured_piece # NoPiece
        /\ _apply_move_temporarily(state, move).ret.board
              = ExecutedBoard(state, move)
        /\ get_piece(ExecutedBoard(state, move),
                     Square(move.to_square.file, move.from_square.rank)) = NoPiece

HomeCorners ==
    { [held |-> state.castling_rights.white_kingside, color |-> WHITE,
       king |-> Square(4, 0), rook |-> Square(7, 0)],
      [held |-> state.castling_rights.white_queenside, color |-> WHITE,
       king |-> Square(4, 0), rook |-> Square(0, 0)],
      [held |-> state.castling_rights.black_kingside, color |-> BLACK,
       king |-> Square(4, 7), rook |-> Square(7, 7)],
      [held |-> state.castling_rights.black_queenside, color |-> BLACK,
       king |-> Square(4, 7), rook |-> Square(0, 7)] }

\* C35: in every position reached from the initial position by legal moves,
\* a castling right that is still held has the king of its colour on e1/e8
\* and a rook of its colour on the corner of that right.
C35_HeldRightHasKingAndRookHome ==
    \A right \in HomeCorners :
        right.held
           => /\ get_piece(state.board, right.king) = Piece(KING, right.color)
              /\ get_piece(state.board, right.rook) = Piece(ROOK, right.color)

\* The a8 rook has been captured on its corner and Black still holds the
\* other right, with king and h8 rook at home.
C35_Witness ==
    /\ state.move_history # <<>>
    /\ LastMove(state).captured_piece = Piece(ROOK, BLACK)
    /\ LastMove(state).to_square = Square(0, 7)
    /\ ~state.castling_rights.black_queenside
    /\ state.castling_rights.black_kingside
    /\ get_piece(state.board, Square(4, 7)) = Piece(KING, BLACK)
    /\ get_piece(state.board, Square(7, 7)) = Piece(ROOK, BLACK)

\* The squares holding a piece of the colour.
SquaresHeld(color) ==
    {square \in Range(AllSquares) : get_piece(state.board, square).color = color}

Destinations(color) ==
    Only({ {moves[i].to_square : i \in 1..Len(moves)} :
           moves \in {generate_pseudo_legal_moves(state, color)} })

\* Square via lies on the straight or diagonal line from origin to target,
\* strictly between the two.
Between(origin, via, target) ==
    LET via_file == via.file - origin.file
        via_rank == via.rank - origin.rank
        file_diff == target.file - origin.file
        rank_diff == target.rank - origin.rank
    IN  /\ via_file = 0 \/ via_rank = 0 \/ Abs(via_file) = Abs(via_rank)
        /\ file_diff = 0 \/ rank_diff = 0 \/ Abs(file_diff) = Abs(rank_diff)
        /\ Sign(via_file) = Sign(file_diff) /\ Sign(via_rank) = Sign(rank_diff)
        /\ via # origin
        /\ Abs(via_file) + Abs(via_rank) < Abs(file_diff) + Abs(rank_diff)

Ahead(square, color) == Square(square.file, square.rank + (IF color = WHITE THEN 1 ELSE -1))

\* C37: for each colour and each square holding a piece of the other
\* colour, is_square_attacked is true exactly when a pseudo-legal move of
\* the colour ends on the square; no pawn attacks the square straight ahead
\* of it and no bishop, rook or queen attacks a square behind an occupied
\* one.
C37_AttackedIffCaptureGenerated ==
    \A color \in {WHITE, BLACK} :
        \E own \in {SquaresHeld(color)}, others \in {SquaresHeld(opposite(color))} :
            /\ \E destinations \in {Destinations(color)} :
                  \A square \in others :
                      is_square_attacked(state.board, square, color)
                         <=> square \in destinations
            /\ \A origin \in own :
                  \E piece \in {get_piece(state.board, origin)} :
                      /\ piece.piece_type = PAWN
                            => ~_can_piece_attack_square(state.board, origin, piece,
                                                         Ahead(origin, color))
                      /\ piece.piece_type \in {BISHOP, ROOK, QUEEN}
                            => \A via \in own \cup others, target \in Range(AllSquares) :
                                  Between(origin, via, target)
                                     => ~_can_piece_attack_square(state.board, origin,
                                                                  piece, target)

\* A white pawn stands behind a black piece that White does not attack,
\* and a white piece attacks a black one that a pseudo-legal move captures.
C37_Witness ==
    /\ \E origin \in SquaresHeld(WHITE) :
          /\ get_piece(state.board, origin).piece_type = PAWN
          /\ get_piece(state.board, Ahead(origin, WHITE)).color = BLACK
          /\ ~is_square_attacked(state.board, Ahead(origin, WHITE), WHITE)
    /\ \E move \in Range(generate_pseudo_legal_moves(state, WHITE)) :
          /\ move.captured_piece # NoPiece
          /\ is_square_attacked(state.board, move.to_square, WHITE)

LastRanks == {square \in Range(AllSquares) : square.rank \in {0, 7}}

C38_GameOverReported ==
    [][ ExecutesMove
           => \E checkmate \in {is_checkmate(state').ret} :
                 \E over \in { \/ checkmate
                               \/ is_stalemate(state').ret
                               \/ is_threefold_repetition(state')
                               \/ state'.halfmove_clock >= 100
                               \/ is_insufficient_material(state') } :
                    /\ last_result'.action
                          = IF over THEN "game_over" ELSE "move_executed"
                    /\ checkmate
                          => last_result'.result
                                = "Checkmate! "
                                  \o Capitalized(opposite(state'.current_player))
                                  \o " wins!" ]_vars

\* The queen has mated on c1 with the hundredth halfmove, and the answer is
\* the checkmate.
C38_Witness ==
    /\ last_op = "handle_move_attempt"
    /\ last_result.action = "game_over"
    /\ last_result.result = "Checkmate! White wins!"
    /\ is_checkmate(state).ret
    /\ state.halfmove_clock = 100
    /\ last_result.move.to_square = Square(2, 0)

\* C39: when the last answer of the controller was game_over, a call of
\* handle_square_selection, handle_move_attempt, handle_promotion_choice or
\* generate_ai_move leaves the game state as it is.
C39_StateKeptAfterGameOver ==
    [][ (/\ last_result.action = "game_over"
         /\ last_op' \in {"handle_square_selection", "handle_move_attempt",
                          "handle_promotion_choice", "generate_ai_move"})
           => state' = state ]_vars

\* C40: in every controller state reached by any calls, the selected
\* square, when set, holds a piece of the side to move in the position
\* held; a call that sets or moves the selection is a selection answered
\* 'selected' of a square holding such a piece, so a click on an empty
\* square or on a piece of the other side never does; and every call that
\* executes a move leaves nothing selected.
C40_SelectedSquareOfSideToMove ==
    /\ [](selected_square # NoSquare
             => /\ state # NoGame
                /\ get_piece(state.board, selected_square).color
                      = state.current_player)
    /\ [][ /\ (selected_square' # selected_square /\ selected_square' # NoSquare)
              => /\ last_op' = "handle_square_selection"
                 /\ last_result'.action = "selected"
                 /\ state' = state
                 /\ get_piece(state.board, selected_square').color
                       = state.current_player
           /\ ExecutesMove => selected_square' = NoSquare ]_vars

\* A move has been executed from a selected square by a click on its
\* destination, and nothing is selected.
C40_Witness ==
    /\ last_op = "handle_square_selection"
    /\ last_result.action = "move_executed"
    /\ selected_square = NoSquare
    /\ get_piece(state.board, last_result.move.from_square) = NoPiece

====
